---- MODULE Spec2Model ----
(***************************************************************************)
(* bq-backup-and-restore: backup, listing and restore of BigQuery datasets *)
(* through table snapshots (BackupService, ListBackupsService,             *)
(* RestoreService and the naming helpers of utils.ts).                     *)
(*                                                                         *)
(* Strings are sequences of one-character strings, so that split,          *)
(* includes, startsWith, substring, padStart and parseInt are computed on  *)
(* characters as the JavaScript code computes them.  A Date is the record  *)
(* [valid, day, sod, ms]: days since 1970-01-01, second of the UTC day and *)
(* millisecond of the second; getTime() is ((day*86400)+sod)*1000+ms and   *)
(* is only ever compared, never stored, so that no 32-bit overflow occurs. *)
(***************************************************************************)
EXTENDS Integers, Sequences, FiniteSets, TLC

(***************************************************************************)
(* JavaScript strings                                                      *)
(***************************************************************************)

Digits == <<"0", "1", "2", "3", "4", "5", "6", "7", "8", "9">>

IsDigit(c) == \E i \in 1..10 : Digits[i] = c

DigitVal(c) == (CHOOSE i \in 1..10 : Digits[i] = c) - 1

\* String(n) for an integer n >= 0
RECURSIVE NumToStr(_)
NumToStr(n) == IF n < 10 THEN <<Digits[n + 1]>> ELSE NumToStr(n \div 10) \o <<Digits[(n % 10) + 1]>>

\* s.padStart(w, '0')
RECURSIVE PadStart(_, _)
PadStart(s, w) == IF Len(s) >= w THEN s ELSE PadStart(<<"0">> \o s, w)

\* s.startsWith(p)
StartsWith(s, p) == Len(s) >= Len(p) /\ SubSeq(s, 1, Len(p)) = p

\* s.includes(sub)
Includes(s, sub) == \E i \in 1..(Len(s) - Len(sub) + 1) : SubSeq(s, i, i + Len(sub) - 1) = sub

\* s.substring(a, b), 0-based, end exclusive, both ends clamped to the length
Substring(s, a, b) == SubSeq(s, (IF a > Len(s) THEN Len(s) ELSE a) + 1, IF b > Len(s) THEN Len(s) ELSE b)

\* s.split('_'): the pieces between separators, empty pieces included
RECURSIVE SplitFrom(_, _, _)
SplitFrom(s, i, cur) == IF i > Len(s) THEN <<cur>> ELSE IF s[i] = "_" THEN <<cur>> \o SplitFrom(s, i + 1, <<>>) ELSE SplitFrom(s, i + 1, Append(cur, s[i]))

Split(s) == SplitFrom(s, 1, <<>>)

\* a join that drops the separator
RECURSIVE Join_Concat(_)
Join_Concat(parts) == IF Len(parts) = 0 THEN <<>> ELSE parts[1] \o Join_Concat(Tail(parts))

\* parts.join('_')
RECURSIVE Join(_)
Join(parts) == IF Len(parts) = 0 THEN <<>> ELSE IF Len(parts) = 1 THEN parts[1] ELSE parts[1] \o <<"_">> \o Join(Tail(parts))

\* parts.slice(k): the elements from 0-based index k on
Slice(parts, k) == SubSeq(parts, k + 1, Len(parts))

\* parseInt(s, 10): the value of the longest prefix of decimal digits, NaN when
\* there is none.  (Dataset ids hold letters, digits and '_' only: no sign, no blank.)
RECURSIVE DigitPrefixVal(_, _, _)
DigitPrefixVal(s, i, acc) == IF i > Len(s) \/ ~IsDigit(s[i]) THEN acc ELSE DigitPrefixVal(s, i + 1, acc * 10 + DigitVal(s[i]))

ParseInt(s) == IF Len(s) = 0 \/ ~IsDigit(s[1]) THEN [nan |-> TRUE, val |-> 0] ELSE [nan |-> FALSE, val |-> DigitPrefixVal(s, 1, 0)]

(***************************************************************************)
(* JavaScript Date (UTC)                                                   *)
(***************************************************************************)

SecPerDay == 86400

InvalidDate == [valid |-> FALSE, day |-> 0, sod |-> 0, ms |-> 0]

MkDate(day, sod, ms) == [valid |-> TRUE, day |-> day, sod |-> sod, ms |-> ms]

\* a.getTime() < b.getTime(); false when either is NaN
DateLT(a, b) == a.valid /\ b.valid /\ (a.day < b.day \/ (a.day = b.day /\ (a.sod < b.sod \/ (a.sod = b.sod /\ a.ms < b.ms))))

\* ECMAScript MakeDay: the day number of the first day of month mon (0-based,
\* any integer: it carries into the year) of year yr, plus dt - 1
DaysFromCivil(yr, mon, dt) == LET ym == yr + (mon \div 12) mn == (mon % 12) + 1 y == IF mn <= 2 THEN ym - 1 ELSE ym era == y \div 400 yoe == y - era * 400 mp == IF mn > 2 THEN mn - 3 ELSE mn + 9 doy == (153 * mp + 2) \div 5 doe == yoe * 365 + (yoe \div 4) - (yoe \div 100) + doy IN era * 146097 + doe - 719468 + (dt - 1)

\* ECMAScript YearFromTime / MonthFromTime / DateFromTime of a day number
CivilFromDays(z0) == LET z == z0 + 719468 era == z \div 146097 doe == z - era * 146097 yoe == (doe - (doe \div 1460) + (doe \div 36524) - (doe \div 146096)) \div 365 doy == doe - (365 * yoe + (yoe \div 4) - (yoe \div 100)) mp == (5 * doy + 2) \div 153 d == doy - ((153 * mp + 2) \div 5) + 1 m == IF mp < 10 THEN mp + 3 ELSE mp - 9 y == yoe + era * 400 + (IF m <= 2 THEN 1 ELSE 0) IN [year |-> y, month |-> m - 1, date |-> d]

getUTCFullYear(t) == CivilFromDays(t.day).year

getUTCMonth(t) == CivilFromDays(t.day).month

getUTCDate(t) == CivilFromDays(t.day).date

getUTCHours(t) == t.sod \div 3600

getUTCMinutes(t) == (t.sod % 3600) \div 60

getUTCSeconds(t) == t.sod % 60

\* new Date(Date.UTC(year, month, day, hours, minutes, seconds)) on parseInt
\* results: NaN if any argument is NaN; a year 0..99 means 1900 + year; fields
\* out of their calendar range carry into the next unit instead of failing
DateUTC(year, month, day, hours, minutes, seconds) == IF year.nan \/ month.nan \/ day.nan \/ hours.nan \/ minutes.nan \/ seconds.nan THEN InvalidDate ELSE LET yr == IF year.val <= 99 THEN 1900 + year.val ELSE year.val secs == hours.val * 3600 + minutes.val * 60 + seconds.val days == DaysFromCivil(yr, month.val, day.val) + (secs \div SecPerDay) IN MkDate(days, secs % SecPerDay, 0)

\* new Date(t.getTime() + deltaMs) for a valid t
DateAddMs(t, deltaMs) == LET msTot == t.ms + (deltaMs % 1000) secTot == t.sod + ((deltaMs \div 1000) % SecPerDay) + (msTot \div 1000) IN MkDate(t.day + ((deltaMs \div 1000) \div SecPerDay) + (secTot \div SecPerDay), secTot % SecPerDay, msTot % 1000)

(***************************************************************************)
(* constants.ts, utils.ts                                                  *)
(***************************************************************************)

BACKUP_DATASET_PREFIX == <<"z", "z", "z", "_", "b", "a", "c", "k", "u", "p", "_">>

formatBackupTimestamp(date) == LET year == getUTCFullYear(date) month == PadStart(NumToStr(getUTCMonth(date) + 1), 2) day == PadStart(NumToStr(getUTCDate(date)), 2) hours == PadStart(NumToStr(getUTCHours(date)), 2) minutes == PadStart(NumToStr(getUTCMinutes(date)), 2) seconds == PadStart(NumToStr(getUTCSeconds(date)), 2) IN NumToStr(year) \o month \o day \o <<"_">> \o hours \o minutes \o seconds

generateBackupDatasetName(sourceDatasetId, timestamp) == BACKUP_DATASET_PREFIX \o formatBackupTimestamp(timestamp) \o <<"_">> \o sourceDatasetId

SevenDaysMs == 7 * 24 * 60 * 60 * 1000

validateTimeTravelTimestamp_NoFutureCheck(timestamp, nowDate) == LET sevenDaysAgo == DateAddMs(nowDate, 0 - SevenDaysMs) IN IF DateLT(timestamp, sevenDaysAgo) THEN FALSE ELSE TRUE

\* validateTimeTravelTimestamp(timestamp, logger), with nowDate == new Date()

validateTimeTravelTimestamp(timestamp, nowDate) == LET sevenDaysAgo == DateAddMs(nowDate, 0 - SevenDaysMs) IN IF DateLT(timestamp, sevenDaysAgo) THEN FALSE ELSE IF DateLT(nowDate, timestamp) THEN FALSE ELSE TRUE

\* "no expiration" (undefined)
NoDate == [valid |-> FALSE, day |-> -1, sod |-> 0, ms |-> 0]

\* a setUTCDate that wraps inside the month instead of carrying into the next
calculateExpirationTimestamp_NoCarry(backupTimestamp, expirationDays) == IF expirationDays = 0 THEN NoDate ELSE LET c == CivilFromDays(backupTimestamp.day) IN MkDate(DaysFromCivil(c.year, c.month, ((c.date + expirationDays - 1) % 28) + 1), backupTimestamp.sod, backupTimestamp.ms)

\* calculateExpirationTimestamp(backupTimestamp, expirationDays); the caller
\* has already replaced an undefined expirationDays by DEFAULT_EXPIRATION_DAYS
calculateExpirationTimestamp(backupTimestamp, expirationDays) == IF expirationDays = 0 THEN NoDate ELSE LET c == CivilFromDays(backupTimestamp.day) IN MkDate(DaysFromCivil(c.year, c.month, c.date + expirationDays), backupTimestamp.sod, backupTimestamp.ms)

DEFAULT_EXPIRATION_DAYS == 90

(***************************************************************************)
(* list-backups.ts: ListBackupsService.listBackups                         *)
(***************************************************************************)

\* The body of the loop of listBackups for one dataset id: the BackupInfo it
\* pushes, as a sequence of length 0 (skipped) or 1
DecodeBackupDataset(datasetId) == IF ~StartsWith(datasetId, BACKUP_DATASET_PREFIX) THEN <<>> ELSE LET parts == Split(datasetId) IN IF Len(parts) < 5 THEN <<>> ELSE LET timestampPart == parts[3] \o <<"_">> \o parts[4] sourceDatasetId == Join(Slice(parts, 4)) tsParts == Split(timestampPart) datePart == tsParts[1] timePart == tsParts[2] IN IF Len(datePart) = 0 \/ Len(timePart) = 0 \/ Len(datePart) # 8 \/ Len(timePart) # 6 THEN <<>> ELSE LET year == ParseInt(Substring(datePart, 0, 4)) month == ParseInt(Substring(datePart, 4, 6)) day == ParseInt(Substring(datePart, 6, 8)) hours == ParseInt(Substring(timePart, 0, 2)) minutes == ParseInt(Substring(timePart, 2, 4)) seconds == ParseInt(Substring(timePart, 4, 6)) timestamp == DateUTC(year, [month EXCEPT !.val = @ - 1], day, hours, minutes, seconds) IN IF ~timestamp.valid THEN <<>> ELSE <<[backupDatasetId |-> datasetId, sourceDatasetId |-> sourceDatasetId, timestamp |-> timestamp]>>

RECURSIVE DecodeAll(_)
DecodeAll(allDatasets) == IF Len(allDatasets) = 0 THEN <<>> ELSE DecodeBackupDataset(Head(allDatasets)) \o DecodeAll(Tail(allDatasets))

\* backupInfos.sort((a, b) => b.timestamp.getTime() - a.timestamp.getTime()):
\* a stable sort, newest first
RECURSIVE InsertNewestFirst(_, _)
InsertNewestFirst(sorted, b) == IF Len(sorted) = 0 THEN <<b>> ELSE IF DateLT(Head(sorted).timestamp, b.timestamp) THEN <<b>> \o sorted ELSE <<Head(sorted)>> \o InsertNewestFirst(Tail(sorted), b)

RECURSIVE SortNewestFirst(_)
SortNewestFirst(infos) == IF Len(infos) = 0 THEN <<>> ELSE InsertNewestFirst(SortNewestFirst(SubSeq(infos, 1, Len(infos) - 1)), infos[Len(infos)])

listBackups(allDatasets) == SortNewestFirst(DecodeAll(allDatasets))

(***************************************************************************)
(* RestoreService.listBackupsForTimestamp                                  *)
(***************************************************************************)

\* The body of the loop of listBackupsForTimestamp for one dataset id
MatchBackupDataset(datasetId, timestamp, timestampStr) == IF ~StartsWith(datasetId, BACKUP_DATASET_PREFIX) THEN <<>> ELSE IF ~Includes(datasetId, timestampStr) THEN <<>> ELSE LET parts == Split(datasetId) IN IF Len(parts) < 5 THEN <<>> ELSE <<[backupDatasetId |-> datasetId, sourceDatasetId |-> Join(Slice(parts, 4)), timestamp |-> timestamp]>>

RECURSIVE MatchAll(_, _, _)
MatchAll(allDatasets, timestamp, timestampStr) == IF Len(allDatasets) = 0 THEN <<>> ELSE MatchBackupDataset(Head(allDatasets), timestamp, timestampStr) \o MatchAll(Tail(allDatasets), timestamp, timestampStr)

listBackupsForTimestamp(allDatasets, timestamp) == LET year == getUTCFullYear(timestamp) month == PadStart(NumToStr(getUTCMonth(timestamp) + 1), 2) day == PadStart(NumToStr(getUTCDate(timestamp)), 2) hours == PadStart(NumToStr(getUTCHours(timestamp)), 2) minutes == PadStart(NumToStr(getUTCMinutes(timestamp)), 2) seconds == PadStart(NumToStr(getUTCSeconds(timestamp)), 2) timestampStr == NumToStr(year) \o month \o day \o <<"_">> \o hours \o minutes \o seconds IN MatchAll(allDatasets, timestamp, timestampStr)

(***************************************************************************)
(* The warehouse (BigQuery project), the clock and the calls               *)
(***************************************************************************)

(***************************************************************************)
(* DeleteBackupsService.groupBackupsByTimestamp                            *)
(***************************************************************************)

\* an instant written without its milliseconds
ToISOString_Seconds(d) == PadStart(NumToStr(getUTCFullYear(d)), 4) \o <<"-">> \o PadStart(NumToStr(getUTCMonth(d) + 1), 2) \o <<"-">> \o PadStart(NumToStr(getUTCDate(d)), 2) \o <<"T">> \o PadStart(NumToStr(getUTCHours(d)), 2) \o <<":">> \o PadStart(NumToStr(getUTCMinutes(d)), 2) \o <<":">> \o PadStart(NumToStr(getUTCSeconds(d)), 2) \o <<"Z">>

\* timestamp.toISOString(), for the years 0 to 9999: YYYY-MM-DDTHH:mm:ss.sssZ
ToISOString(d) == PadStart(NumToStr(getUTCFullYear(d)), 4) \o <<"-">> \o PadStart(NumToStr(getUTCMonth(d) + 1), 2) \o <<"-">> \o PadStart(NumToStr(getUTCDate(d)), 2) \o <<"T">> \o PadStart(NumToStr(getUTCHours(d)), 2) \o <<":">> \o PadStart(NumToStr(getUTCMinutes(d)), 2) \o <<":">> \o PadStart(NumToStr(getUTCSeconds(d)), 2) \o <<".">> \o PadStart(NumToStr(d.ms), 3) \o <<"Z">>

\* the body of the loop of groupBackupsByTimestamp: the backup joins the
\* group of its key, a new group at the end of the map when there is none
AddToGroups(map, backup) == LET timestampKey == ToISOString(backup.timestamp) IN IF \E i \in DOMAIN map : map[i].key = timestampKey THEN [i \in DOMAIN map |-> IF map[i].key = timestampKey THEN [map[i] EXCEPT !.backups = Append(@, backup)] ELSE map[i]] ELSE Append(map, [key |-> timestampKey, timestamp |-> backup.timestamp, timestampStr |-> ToISOString(backup.timestamp), backups |-> <<backup>>])

RECURSIVE GroupAll(_, _)
GroupAll(map, backups) == IF Len(backups) = 0 THEN map ELSE GroupAll(AddToGroups(map, Head(backups)), Tail(backups))

\* Array.from(groups.values()): the groups in insertion order, without keys
GroupValues(map) == [i \in DOMAIN map |-> [timestamp |-> map[i].timestamp, timestampStr |-> map[i].timestampStr, backups |-> map[i].backups]]

\* groupBackupsByTimestamp(backups): the groups sorted by
\* (a, b) => b.timestamp.getTime() - a.timestamp.getTime()
groupBackupsByTimestamp(backups) == SortNewestFirst(GroupValues(GroupAll(<<>>, backups)))

VARIABLES bq, now, ticks, jobs, bpc, options, backupTimestamp, expirationTimestamp, datasets, bi, tables, result, results, snap, thrown, calledAt, listed, settled, made, collided

\* bq: dataset id -> [location, tables: table id -> [type, data]]
\* now: the wall clock; ticks: how often it has advanced
\* jobs: the mutating requests sent to the warehouse, in the order sent
\* bpc .. thrown: one backupDataset call: position, arguments, locals, outcome
\* calledAt, listed, settled, made, collided: history of the call (the clock
\* at entry; per loop index the eligible tables listed, the snapshot outcomes,
\* the clock when dataset.create() succeeded and the snapshot requests were
\* sent, and the backup dataset found to exist already when the loop reached
\* the index)
\* encoded .. resolved: the naming round trip: the (source, instant, name)
\* triples of the backup datasets created, and the output of the last command
\* run (each command is a process of its own): the project as listed by
\* listBackups() and its result, or the instant asked of
\* listBackupsForTimestamp(), the project it saw and its result
VARIABLES encoded, listedFrom, listing, resolveT, resolvedFrom, resolved

\* rpc .. rthrown: one restoreBackups call: position, arguments, locals, outcome
\* rbefore, rhist: history of the call (the project at entry; per loop index
\* and table, whether the target existed when checked and how the table ended)
VARIABLES rpc, ropts, backups, ri, tableIds, rresult, rresults, rtask, views, vi, recreated, rthrown, rbefore, rhist, rsettled, vhist

wvars == <<bq, now, ticks, jobs>>

cvars == <<encoded, listedFrom, listing, resolveT, resolvedFrom, resolved>>

\* rsettled, vhist: history of the call (per loop index, the outcome of each
\* restoreTable and its rank among the completions; the views attempted)
\* dpc .. dexit: one run of the delete-backups command: position, the backups
\* listed, their groups, the answers typed, the backups to delete, the loop
\* index, the counters, the exit code (-1 while running)
\* dhist, vanished: history (the outcome of each deletion attempted, in order;
\* how many datasets other users removed meanwhile)
VARIABLES dpc, dbackups, groups, selAnswer, selected, confAnswer, dqueue, di, successCount, errorCount, dexit, dhist, vanished

\* qpc .. exit_code: one call of rabbit_bq_query: position, the locals of the
\* function by their names, the status it returns (exit_code when qpc is
\* "done")
\* executed: history (the bq query commands run, in order, with their status)
VARIABLES qpc, original_args, debug_mode, use_reservation, reservation_id, has_reservation_flag, labels_json, bq_cmd_args, query_args, exit_code, executed

qvars == <<qpc, original_args, debug_mode, use_reservation, reservation_id, has_reservation_flag, labels_json, bq_cmd_args, query_args, exit_code, executed>>

rvars == <<rpc, ropts, backups, ri, tableIds, rresult, rresults, rtask, views, vi, recreated, rthrown, rbefore, rhist, rsettled, vhist>>

dvars == <<dpc, dbackups, groups, selAnswer, selected, confAnswer, dqueue, di, successCount, errorCount, dexit, dhist, vanished>>

bvars == <<bpc, options, backupTimestamp, expirationTimestamp, datasets, bi, tables, result, results, snap, thrown, calledAt, listed, settled, made, collided>>

vars == <<bq, now, ticks, jobs, bpc, options, backupTimestamp, expirationTimestamp, datasets, bi, tables, result, results, snap, thrown, calledAt, listed, settled, made, collided, encoded, listedFrom, listing, resolveT, resolvedFrom, resolved, rpc, ropts, backups, ri, tableIds, rresult, rresults, rtask, views, vi, recreated, rthrown, rbefore, rhist, rsettled, vhist, dpc, dbackups, groups, selAnswer, selected, confAnswer, dqueue, di, successCount, errorCount, dexit, dhist, vanished, qpc, original_args, debug_mode, use_reservation, reservation_id, has_reservation_flag, labels_json, bq_cmd_args, query_args, exit_code, executed>>

MaxTicks == 1

TickMs == 600

\* 2024-12-15T14:30:22.500Z
Now0 == MkDate(20072, 52222, 500)

NoLocation == ""

SrcA == <<"a">>

SrcB == <<"b", "_", "1">>

SrcMissing == <<"n", "o">>

\* the order in which dataset.getTables() lists the members of a dataset
TableOrder == <<"mv1", "mv2", "note", "t1", "t2", "t3", "v1", "s1", "m1", "x1">>

RECURSIVE SeqFilterIn(_, _)
SeqFilterIn(seq, set) == IF Len(seq) = 0 THEN <<>> ELSE IF Head(seq) \in set THEN <<Head(seq)>> \o SeqFilterIn(Tail(seq), set) ELSE SeqFilterIn(Tail(seq), set)

Range(seq) == {seq[i] : i \in 1..Len(seq)}

\* bq.getDatasets() lists the datasets in the order of their ids (the order
\* the prefix 'zzz_' relies on to put backup datasets last): code-unit order
\* over the characters dataset ids are made of
Alphabet == <<"0", "1", "2", "3", "4", "5", "6", "7", "8", "9", "_", "a", "b", "c", "d", "e", "f", "g", "h", "i", "j", "k", "l", "m", "n", "o", "p", "q", "r", "s", "t", "u", "v", "w", "x", "y", "z">>

CharRank(c) == CHOOSE i \in 1..Len(Alphabet) : Alphabet[i] = c

RECURSIVE LexLess(_, _)
LexLess(a, b) == IF Len(b) = 0 THEN FALSE ELSE IF Len(a) = 0 THEN TRUE ELSE IF a[1] = b[1] THEN LexLess(Tail(a), Tail(b)) ELSE CharRank(a[1]) < CharRank(b[1])

RECURSIVE SortedIds(_)
SortedIds(ids) == IF ids = {} THEN <<>> ELSE LET first == CHOOSE x \in ids : \A y \in ids \ {x} : LexLess(x, y) IN <<first>> \o SortedIds(ids \ {first})

getDatasets == SortedIds(DOMAIN bq)

NoJob == [op |-> "none", dataset |-> <<>>, table |-> "", source |-> <<>>, at |-> NoDate, expires |-> NoDate, location |-> NoLocation]

\* a dataset.create() that is acknowledged and creates nothing
CreateDataset_Lost(id, location) == bq

\* the effect of dataset.create({ location }): the project holds the new,
\* empty dataset
CreateDataset(id, location) == (id :> [location |-> location, tables |-> <<>>]) @@ bq

CreateDatasetJob(id, location) == [NoJob EXCEPT !.op = "createDataset", !.dataset = id, !.location = location]

SnapshotJob_IntoSource(sourceDatasetId, sourceTableId, backupDatasetId, backupTableId, snapshotTimestamp, expiration) == [NoJob EXCEPT !.op = "snapshot", !.dataset = sourceDatasetId, !.table = backupTableId, !.source = sourceDatasetId, !.at = snapshotTimestamp, !.expires = expiration]

SnapshotJob(sourceDatasetId, sourceTableId, backupDatasetId, backupTableId, snapshotTimestamp, expiration) == [NoJob EXCEPT !.op = "snapshot", !.dataset = backupDatasetId, !.table = backupTableId, !.source = sourceDatasetId, !.at = snapshotTimestamp, !.expires = expiration]

Tick == /\ ticks < MaxTicks
        /\ now' = DateAddMs(now, TickMs)
        /\ ticks' = ticks + 1
        /\ UNCHANGED <<bq, jobs>>
        /\ UNCHANGED bvars
        /\ UNCHANGED <<cvars, rvars, dvars, qvars>>

(***************************************************************************)
(* BackupService                                                           *)
(***************************************************************************)

NoResult == [backupDatasetId |-> <<>>, sourceDatasetId |-> <<>>, timestamp |-> NoDate, tablesBackedUp |-> 0, success |-> FALSE, errors |-> <<>>]

Err(kind, what) == [kind |-> kind, what |-> what]

\* listTables(datasetId): the members of type TABLE in listing order; a member
\* whose getMetadata() fails (metaFails) is logged and left out
\* a listing that keeps the members of every type
listTables_AllTypes(datasetId, metaFails) == SeqFilterIn(TableOrder, {t \in DOMAIN bq[datasetId].tables : t \notin metaFails})

listTables(datasetId, metaFails) == SeqFilterIn(TableOrder, {t \in DOMAIN bq[datasetId].tables : t \notin metaFails /\ bq[datasetId].tables[t].type = "TABLE"})

\* the position after the body of the for loop of backupDataset for index i
AfterDataset(i) == IF i + 1 > Len(datasets) THEN "done" ELSE "listTables"

\* the instant of the backup that an earlier run left in the project
EarlierBackup == DateAddMs(Now0, 0 - 1000)

BackupOptions(ts, ids, days, dry) == [timestamp |-> ts, datasets |-> ids, expirationDays |-> days, dryRun |-> dry]

\* the arguments of the backup calls: every instant around the two ends of the
\* time-travel window or none, every list of dataset ids or none, with and
\* without expiration, real and dry runs
BackupInputs == {BackupOptions(ts, <<SrcB, SrcA>>, DEFAULT_EXPIRATION_DAYS, FALSE) : ts \in {NoDate, DateAddMs(Now0, 0 - SevenDaysMs - 1), DateAddMs(Now0, 0 - SevenDaysMs), EarlierBackup, Now0, DateAddMs(Now0, 1000)}} \cup {BackupOptions(ts, ids, DEFAULT_EXPIRATION_DAYS, FALSE) : ts \in {NoDate, EarlierBackup}, ids \in {<<>>, <<SrcA>>, <<SrcA, SrcA>>, <<SrcMissing, SrcB>>}} \cup {BackupOptions(ts, ids, 0, dry) : ts \in {NoDate, EarlierBackup}, ids \in {<<>>, <<SrcB, SrcA>>}, dry \in BOOLEAN}

\* backupDataset(options) up to its first await: the instant is fixed, the
\* expiration computed, a supplied instant validated
BackupCall == /\ bpc = "idle"
              /\ \E o \in BackupInputs :
                    /\ options' = o
                    /\ backupTimestamp' = (IF o.timestamp.valid THEN o.timestamp ELSE now)
                    /\ expirationTimestamp' = calculateExpirationTimestamp(backupTimestamp', o.expirationDays)
                    /\ IF o.timestamp.valid /\ ~validateTimeTravelTimestamp(o.timestamp, now)
                       THEN bpc' = "thrown" /\ thrown' = "Invalid timestamp for time travel"
                       ELSE bpc' = "listDatasets" /\ thrown' = thrown
              /\ calledAt' = now
              /\ UNCHANGED <<datasets, bi, tables, result, results, snap, listed, settled, made, collided>>
              /\ UNCHANGED wvars
              /\ UNCHANGED <<cvars, rvars, dvars, qvars>>

\* listDatasets(options.datasets): the named datasets that exist, in the order
\* named, or every dataset whose id does not start with the backup prefix, in
\* listing order; an access error fails the call
DatasetInfo(id) == [datasetId |-> id, location |-> bq[id].location]

RECURSIVE ExistingInfos(_)
ExistingInfos(ids) == IF Len(ids) = 0 THEN <<>> ELSE IF Head(ids) \in DOMAIN bq THEN <<DatasetInfo(Head(ids))>> \o ExistingInfos(Tail(ids)) ELSE ExistingInfos(Tail(ids))

RECURSIVE NonBackupInfos(_)
\* a listing that keeps the backup datasets
NonBackupInfos_All(ids) == [i \in 1..Len(ids) |-> DatasetInfo(ids[i])]

NonBackupInfos(ids) == IF Len(ids) = 0 THEN <<>> ELSE IF StartsWith(Head(ids), BACKUP_DATASET_PREFIX) THEN NonBackupInfos(Tail(ids)) ELSE <<DatasetInfo(Head(ids))>> \o NonBackupInfos(Tail(ids))

BackupListDatasets == /\ bpc = "listDatasets"
                      /\ \E fail \in BOOLEAN :
                            IF fail
                            THEN /\ bpc' = "thrown"
                                 /\ thrown' = "remote error"
                                 /\ UNCHANGED <<datasets, bi, listed>>
                            ELSE /\ datasets' = (IF Len(options.datasets) > 0 THEN ExistingInfos(options.datasets) ELSE NonBackupInfos(getDatasets))
                                 /\ bi' = 1
                                 /\ listed' = [i \in 1..Len(datasets') |-> <<>>]
                                 /\ bpc' = (IF Len(datasets') = 0 THEN "done" ELSE "listTables")
                                 /\ thrown' = thrown
                      /\ UNCHANGED <<options, backupTimestamp, expirationTimestamp, tables, result, results, snap, calledAt, settled, made, collided>>
                      /\ UNCHANGED wvars
                      /\ UNCHANGED <<cvars, rvars, dvars, qvars>>

\* the catch block of the loop body: the dataset's result is one error
\* a failure that is recorded without its message
DatasetFailed_NoMessage(r, what) == [r EXCEPT !.success = FALSE]

DatasetFailed(r, what) == [r EXCEPT !.errors = <<Err("dataset", what)>>, !.success = FALSE]

\* One iteration of the loop up to the await in createBackupDataset: the
\* result is initialised, the tables are listed, a dataset without tables is a
\* success, the backup dataset name is generated, the location is required
\* a loop body that goes on to create the backup dataset of an empty listing
NoTables_Ignored(tabs) == FALSE

\* if (tables.length === 0)
NoTables(tabs) == Len(tabs) = 0

BackupListTables == /\ bpc = "listTables"
                    /\ LET datasetInfo == datasets[bi]
                           r0 == [backupDatasetId |-> <<>>, sourceDatasetId |-> datasetInfo.datasetId, timestamp |-> backupTimestamp, tablesBackedUp |-> 0, success |-> FALSE, errors |-> <<>>]
                           name == generateBackupDatasetName(datasetInfo.datasetId, backupTimestamp)
                       IN \E fail \in BOOLEAN, metaFails \in SUBSET (DOMAIN bq[datasetInfo.datasetId].tables) :
                             /\ collided' = (IF name \in DOMAIN bq THEN collided \cup {[idx |-> bi, name |-> name, jobsLen |-> Len(jobs), seen |-> bq[name]]} ELSE collided)
                             /\ IF fail
                                THEN /\ results' = Append(results, DatasetFailed(r0, "remote error"))
                                     /\ bi' = bi + 1
                                     /\ bpc' = AfterDataset(bi)
                                     /\ UNCHANGED <<tables, result, listed>>
                                ELSE LET tabs == listTables(datasetInfo.datasetId, metaFails)
                                         r1 == [r0 EXCEPT !.backupDatasetId = generateBackupDatasetName(datasetInfo.datasetId, backupTimestamp)]
                                     IN /\ listed' = [listed EXCEPT ![bi] = tabs]
                                        /\ IF NoTables(tabs)
                                           THEN /\ results' = Append(results, [r0 EXCEPT !.success = TRUE])
                                                /\ bi' = bi + 1
                                                /\ bpc' = AfterDataset(bi)
                                                /\ UNCHANGED <<tables, result>>
                                           ELSE IF datasetInfo.location = NoLocation
                                           THEN /\ results' = Append(results, DatasetFailed(r1, "no location"))
                                                /\ bi' = bi + 1
                                                /\ bpc' = AfterDataset(bi)
                                                /\ UNCHANGED <<tables, result>>
                                           ELSE /\ tables' = tabs
                                                /\ result' = r1
                                                /\ bpc' = "exists"
                                                /\ UNCHANGED <<results, bi>>
                    /\ UNCHANGED <<options, backupTimestamp, expirationTimestamp, datasets, snap, thrown, calledAt, settled, made>>
                    /\ UNCHANGED wvars
                    /\ UNCHANGED <<cvars, rvars, dvars, qvars>>

\* the requests of tables.map(...): one createTableSnapshot per table, each
\* run up to its createQueryJob, in listing order
RECURSIVE SnapshotJobs_ReadsClock(_, _, _, _, _)
SnapshotJobs_ReadsClock(tabs, sourceDatasetId, backupDatasetId, ts, expiration) == IF Len(tabs) = 0 THEN <<>> ELSE <<SnapshotJob(sourceDatasetId, Head(tabs), backupDatasetId, Head(tabs), now, expiration)>> \o SnapshotJobs_ReadsClock(Tail(tabs), sourceDatasetId, backupDatasetId, ts, expiration)

RECURSIVE SnapshotJobs_Retries(_, _, _, _, _)
SnapshotJobs_Retries(tabs, sourceDatasetId, backupDatasetId, ts, expiration) == IF Len(tabs) = 0 THEN <<>> ELSE <<SnapshotJob(sourceDatasetId, Head(tabs), backupDatasetId, Head(tabs), ts, expiration), SnapshotJob(sourceDatasetId, Head(tabs), backupDatasetId, Head(tabs), ts, expiration)>> \o SnapshotJobs_Retries(Tail(tabs), sourceDatasetId, backupDatasetId, ts, expiration)

RECURSIVE SnapshotJobs(_, _, _, _, _)
SnapshotJobs(tabs, sourceDatasetId, backupDatasetId, ts, expiration) == IF Len(tabs) = 0 THEN <<>> ELSE <<SnapshotJob(sourceDatasetId, Head(tabs), backupDatasetId, Head(tabs), ts, expiration)>> \o SnapshotJobs(Tail(tabs), sourceDatasetId, backupDatasetId, ts, expiration)

\* const [exists] = await dataset.exists() in createBackupDataset
BackupDatasetExists_Never(backupDatasetId) == FALSE

BackupDatasetExists(backupDatasetId) == backupDatasetId \in DOMAIN bq

\* if (dryRun) in createBackupDataset and createTableSnapshot, both handed
\* options.dryRun by backupDataset
DryRun_Ignored(o) == FALSE

DryRun(o) == o.dryRun

\* createBackupDataset after dataset.exists(): an existing dataset is an
\* error; a dry run creates nothing and its snapshots return at once;
\* otherwise dataset.create() is sent
BackupExists == /\ bpc = "exists"
                /\ \E fail \in BOOLEAN :
                      IF fail \/ BackupDatasetExists(result.backupDatasetId)
                      THEN /\ results' = Append(results, DatasetFailed(result, IF fail THEN "remote error" ELSE "already exists"))
                           /\ bi' = bi + 1
                           /\ bpc' = AfterDataset(bi)
                           /\ UNCHANGED <<snap, jobs, settled>>
                      ELSE IF DryRun(options)
                      THEN /\ snap' = [t \in Range(tables) |-> "ok"]
                           /\ settled' = settled \cup {[idx |-> bi, table |-> t, ok |-> TRUE] : t \in Range(tables)}
                           /\ bpc' = "fanout"
                           /\ UNCHANGED <<results, bi, jobs>>
                      ELSE /\ jobs' = Append(jobs, CreateDatasetJob(result.backupDatasetId, datasets[bi].location))
                           /\ bpc' = "creating"
                           /\ UNCHANGED <<results, bi, snap, settled>>
                /\ UNCHANGED <<options, backupTimestamp, expirationTimestamp, datasets, tables, result, thrown, calledAt, listed, made, collided>>
                /\ UNCHANGED <<bq, now, ticks>>
                /\ UNCHANGED <<cvars, rvars, dvars, qvars>>

\* dataset.create() returns: on success the backup dataset exists, empty, in
\* the source's location, and the snapshot requests of every table are sent
BackupCreated == /\ bpc = "creating"
                 /\ \E ok \in BOOLEAN :
                       IF ok /\ result.backupDatasetId \notin DOMAIN bq
                       THEN /\ bq' = CreateDataset(result.backupDatasetId, datasets[bi].location)
                            /\ jobs' = jobs \o SnapshotJobs(tables, datasets[bi].datasetId, result.backupDatasetId, backupTimestamp, expirationTimestamp)
                            /\ snap' = [t \in Range(tables) |-> "creating"]
                            /\ bpc' = "fanout"
                            /\ made' = made \cup {[idx |-> bi, clock |-> now]}
                            /\ UNCHANGED <<results, bi>>
                       ELSE /\ results' = Append(results, DatasetFailed(result, "remote error"))
                            /\ bi' = bi + 1
                            /\ bpc' = AfterDataset(bi)
                            /\ UNCHANGED <<bq, jobs, snap, made>>
                 /\ UNCHANGED <<options, backupTimestamp, expirationTimestamp, datasets, tables, result, thrown, calledAt, listed, settled, collided>>
                 /\ UNCHANGED <<now, ticks>>
                 /\ UNCHANGED <<cvars, rvars, dvars, qvars>>

\* createTableSnapshot of one table settles (createQueryJob, then
\* job.promise()): on success the snapshot table exists in the backup dataset
\* with the source table's data; a failure of either await is caught by the
\* table's own catch block
SnapshotSettled(t) == /\ bpc = "fanout"
                      /\ t \in DOMAIN snap
                      /\ snap[t] = "creating"
                      /\ LET src == datasets[bi].datasetId
                             dst == result.backupDatasetId
                         IN \E ok \in BOOLEAN :
                               IF ok /\ src \in DOMAIN bq /\ t \in DOMAIN bq[src].tables /\ dst \in DOMAIN bq /\ t \notin DOMAIN bq[dst].tables
                               THEN /\ bq' = [bq EXCEPT ![dst].tables = (t :> [type |-> "SNAPSHOT", data |-> bq[src].tables[t].data]) @@ @]
                                    /\ snap' = [snap EXCEPT ![t] = "ok"]
                                    /\ settled' = settled \cup {[idx |-> bi, table |-> t, ok |-> TRUE]}
                               ELSE /\ bq' = bq
                                    /\ snap' = [snap EXCEPT ![t] = "failed"]
                                    /\ settled' = settled \cup {[idx |-> bi, table |-> t, ok |-> FALSE]}
                      /\ UNCHANGED <<bpc, options, backupTimestamp, expirationTimestamp, datasets, bi, tables, result, results, thrown, calledAt, listed, made, collided>>
                      /\ UNCHANGED <<now, ticks, jobs>>
                      /\ UNCHANGED <<cvars, rvars, dvars, qvars>>

\* snapshotResults.filter((r) => !r.success).map((f) => f.error): in the
\* order of the tables, whatever the order of completion
RECURSIVE FailedErrors(_, _, _)
FailedErrors(tabs, st, kind) == IF Len(tabs) = 0 THEN <<>> ELSE IF st[Head(tabs)] = "ok" THEN FailedErrors(Tail(tabs), st, kind) ELSE <<Err(kind, Head(tabs))>> \o FailedErrors(Tail(tabs), st, kind)

Successful_CountsAll(tabs, st) == Len(tabs)

Successful(tabs, st) == Cardinality({i \in 1..Len(tabs) : st[tabs[i]] = "ok"})

\* Promise.all(snapshotPromises) resolves once every table has settled; the
\* result is aggregated and pushed, and the loop goes on
BackupJoin == /\ bpc = "fanout"
              /\ \A t \in DOMAIN snap : snap[t] \in {"ok", "failed"}
              /\ LET failed == FailedErrors(tables, snap, "snapshot")
                 IN results' = Append(results, [result EXCEPT !.tablesBackedUp = Successful(tables, snap), !.success = (Len(failed) = 0), !.errors = failed])
              /\ bi' = bi + 1
              /\ bpc' = AfterDataset(bi)
              /\ snap' = <<>>
              /\ UNCHANGED <<options, backupTimestamp, expirationTimestamp, datasets, tables, result, thrown, calledAt, listed, settled, made, collided>>
              /\ UNCHANGED wvars
              /\ UNCHANGED <<cvars, rvars, dvars, qvars>>

NoRestoreResult == [sourceBackupDatasetId |-> <<>>, targetDatasetId |-> <<>>, tablesRestored |-> 0, materializedViewsRecreated |-> 0, success |-> FALSE, errors |-> <<>>]

(***************************************************************************)
(* Initial states and specifications                                       *)
(***************************************************************************)

Table(data) == [type |-> "TABLE", data |-> data]

MView(data) == [type |-> "MATERIALIZED_VIEW", data |-> data]

Snapshot(data) == [type |-> "SNAPSHOT", data |-> data]

\* the projects a backup starts from: dataset a with tables and a
\* materialized view, dataset b_1 with or without a table and a location,
\* and possibly the backup of one of them made by an earlier run
\* members that are no tables: a view, a snapshot, a model, and a member whose
\* metadata carries no type
OtherMembers == ("v1" :> [type |-> "VIEW", data |-> 5]) @@ ("s1" :> Snapshot(6)) @@ ("m1" :> [type |-> "MODEL", data |-> 7]) @@ ("x1" :> [type |-> "", data |-> 8])

BackupProjects == {(SrcA :> [location |-> "US", tables |-> ("t1" :> Table(1)) @@ ("t2" :> Table(2)) @@ ("t3" :> Table(3)) @@ ("mv1" :> MView(0))]) @@ (SrcB :> [location |-> b.loc, tables |-> b.tb]) @@ old : b \in {[loc |-> "EU", tb |-> <<>>], [loc |-> "EU", tb |-> ("t1" :> Table(4))], [loc |-> NoLocation, tb |-> ("t1" :> Table(4))]}, old \in {<<>>, (generateBackupDatasetName(SrcA, EarlierBackup) :> [location |-> "US", tables |-> ("t1" :> Snapshot(0))]), (generateBackupDatasetName(SrcB, EarlierBackup) :> [location |-> "EU", tables |-> ("t1" :> Snapshot(0))])}}

\* a project whose second dataset holds no table but members of other types
MemberProjects == {(SrcA :> [location |-> "US", tables |-> ("t1" :> Table(1)) @@ ("t2" :> Table(2)) @@ ("t3" :> Table(3)) @@ ("mv1" :> MView(0))]) @@ (SrcB :> [location |-> "EU", tables |-> OtherMembers])}

BackupIdle == /\ bpc = "idle"
              /\ options = [timestamp |-> NoDate, datasets |-> <<>>, expirationDays |-> 0, dryRun |-> FALSE]
              /\ backupTimestamp = NoDate
              /\ expirationTimestamp = NoDate
              /\ datasets = <<>>
              /\ bi = 0
              /\ tables = <<>>
              /\ result = NoResult
              /\ results = <<>>
              /\ snap = <<>>
              /\ thrown = ""
              /\ calledAt = NoDate
              /\ listed = <<>>
              /\ settled = {}
              /\ made = {}
              /\ collided = {}

CodecIdle == /\ encoded = {}
             /\ listedFrom = {}
             /\ listing = <<>>
             /\ resolveT = NoDate
             /\ resolvedFrom = {}
             /\ resolved = <<>>

RestoreIdle == /\ rpc = "idle"
               /\ ropts = [backupTimestamp |-> NoDate, overwrite |-> FALSE]
               /\ backups = <<>>
               /\ ri = 0
               /\ tableIds = <<>>
               /\ rresult = NoRestoreResult
               /\ rresults = <<>>
               /\ rtask = <<>>
               /\ views = <<>>
               /\ vi = 0
               /\ recreated = 0
               /\ rthrown = ""
               /\ rbefore = <<>>
               /\ rhist = {}
               /\ rsettled = {}
               /\ vhist = {}

DeleteIdle == /\ dpc = "idle"
              /\ dbackups = <<>>
              /\ groups = <<>>
              /\ selAnswer = <<>>
              /\ selected = 0 - 1
              /\ confAnswer = <<>>
              /\ dqueue = <<>>
              /\ di = 0
              /\ successCount = 0
              /\ errorCount = 0
              /\ dexit = 0 - 1
              /\ dhist = <<>>
              /\ vanished = 0

QueryIdle == /\ qpc = "idle"
             /\ original_args = <<>>
             /\ debug_mode = FALSE
             /\ use_reservation = FALSE
             /\ reservation_id = <<>>
             /\ has_reservation_flag = FALSE
             /\ labels_json = <<>>
             /\ bq_cmd_args = <<>>
             /\ query_args = <<>>
             /\ exit_code = 0
             /\ executed = <<>>

InitBackup == /\ bq \in BackupProjects
              /\ now = Now0
              /\ ticks = 0
              /\ jobs = <<>>
              /\ BackupIdle
              /\ CodecIdle
              /\ RestoreIdle
              /\ DeleteIdle
              /\ QueryIdle
NextBackup == \/ Tick
              \/ BackupCall
              \/ BackupListDatasets
              \/ BackupListTables
              \/ BackupExists
              \/ BackupCreated
              \/ \E t \in Range(TableOrder) : SnapshotSettled(t)
              \/ BackupJoin

SpecBackup == InitBackup /\ [][NextBackup]_vars

(***************************************************************************)
(* The naming round trip: backups create datasets, listBackups and         *)
(* listBackupsForTimestamp decode their names                              *)
(***************************************************************************)

MaxBackups == 2

\* a source dataset whose own id ends in a run that reads as a timestamp
SrcStamped == <<"a", "_", "2", "0", "2", "4", "1", "2", "1", "5", "_", "1", "4", "3", "0", "2", "2">>

CodecSources == {SrcB, SrcStamped}

\* 2024-12-15T14:30:22.000Z and .500Z, 2024-02-29T23:59:59.999Z,
\* 2024-01-01T00:00:00.000Z, 0999-12-15T14:30:22.000Z
CodecInstants == {MkDate(20072, 52222, 0), Now0, MkDate(DaysFromCivil(2024, 1, 29), 86399, 999), MkDate(DaysFromCivil(2024, 0, 1), 0, 0), MkDate(DaysFromCivil(999, 11, 15), 52222, 0)}

\* dataset ids that begin like a backup dataset, or nearly, and are none:
\*   zzz_backup_20241315_143022_a
\*   zzz_backup_20241232_250000_a
\*   zzz_backup_20240230_000000_a
\*   zzz_backup_2024121_143022_a
\*   zzz_backup_20a41215_143022_a
\*   zzz_backup_abcdefgh_ijklmn_a
\*   zzz_backup_x_20241215_143022_a
\*   zzz_backup_20241215_143022
\*   backup_20241215_143022_a
StrayMonth13 == <<"z", "z", "z", "_", "b", "a", "c", "k", "u", "p", "_", "2", "0", "2", "4", "1", "3", "1", "5", "_", "1", "4", "3", "0", "2", "2", "_", "a">>

StrayDay32Hour25 == <<"z", "z", "z", "_", "b", "a", "c", "k", "u", "p", "_", "2", "0", "2", "4", "1", "2", "3", "2", "_", "2", "5", "0", "0", "0", "0", "_", "a">>

StrayFeb30 == <<"z", "z", "z", "_", "b", "a", "c", "k", "u", "p", "_", "2", "0", "2", "4", "0", "2", "3", "0", "_", "0", "0", "0", "0", "0", "0", "_", "a">>

StraySevenDigits == <<"z", "z", "z", "_", "b", "a", "c", "k", "u", "p", "_", "2", "0", "2", "4", "1", "2", "1", "_", "1", "4", "3", "0", "2", "2", "_", "a">>

StrayLetterInDate == <<"z", "z", "z", "_", "b", "a", "c", "k", "u", "p", "_", "2", "0", "a", "4", "1", "2", "1", "5", "_", "1", "4", "3", "0", "2", "2", "_", "a">>

StrayLetters == <<"z", "z", "z", "_", "b", "a", "c", "k", "u", "p", "_", "a", "b", "c", "d", "e", "f", "g", "h", "_", "i", "j", "k", "l", "m", "n", "_", "a">>

StrayShifted == <<"z", "z", "z", "_", "b", "a", "c", "k", "u", "p", "_", "x", "_", "2", "0", "2", "4", "1", "2", "1", "5", "_", "1", "4", "3", "0", "2", "2", "_", "a">>

StrayNoSource == <<"z", "z", "z", "_", "b", "a", "c", "k", "u", "p", "_", "2", "0", "2", "4", "1", "2", "1", "5", "_", "1", "4", "3", "0", "2", "2">>

StrayNoPrefix == <<"b", "a", "c", "k", "u", "p", "_", "2", "0", "2", "4", "1", "2", "1", "5", "_", "1", "4", "3", "0", "2", "2", "_", "a">>

CodecStrays == {StrayMonth13, StrayDay32Hour25, StrayFeb30, StraySevenDigits, StrayLetterInDate, StrayLetters, StrayShifted, StrayNoSource, StrayNoPrefix}

EmptyDataset(location) == [location |-> location, tables |-> <<>>]

\* the projects a listing starts from: the source dataset a and at most one
\* stray dataset
CodecProjects == {(SrcA :> EmptyDataset("US")) @@ stray : stray \in {<<>>} \cup {(n :> EmptyDataset("US")) : n \in CodecStrays}}

\* A backup of source dataset src at instant t creates its backup dataset
\* (backupDataset: generateBackupDatasetName, createBackupDataset)
CodecBackup(src, t) == /\ Cardinality(encoded) < MaxBackups
                       /\ LET name == generateBackupDatasetName(src, t)
                          IN /\ name \notin DOMAIN bq
                             /\ bq' = (name :> EmptyDataset("US")) @@ bq
                             /\ encoded' = encoded \cup {[source |-> src, instant |-> t, name |-> name]}
                       /\ listedFrom' = {} /\ listing' = <<>>
                       /\ resolveT' = NoDate /\ resolvedFrom' = {} /\ resolved' = <<>>
                       /\ UNCHANGED <<now, ticks, jobs>>
                       /\ UNCHANGED <<bvars, rvars, dvars, qvars>>

\* ListBackupsService.listBackups()
ListBackupsCall == /\ listing' = listBackups(getDatasets)
                   /\ listedFrom' = DOMAIN bq
                   /\ resolveT' = NoDate /\ resolvedFrom' = {} /\ resolved' = <<>>
                   /\ UNCHANGED encoded
                   /\ UNCHANGED <<wvars, bvars, rvars, dvars, qvars>>

\* RestoreService.listBackupsForTimestamp(timestamp)
ResolveCall(timestamp) == /\ resolved' = listBackupsForTimestamp(getDatasets, timestamp)
                          /\ resolvedFrom' = DOMAIN bq
                          /\ resolveT' = timestamp
                          /\ listedFrom' = {} /\ listing' = <<>>
                          /\ UNCHANGED encoded
                          /\ UNCHANGED <<wvars, bvars, rvars, dvars, qvars>>

InitCodec == /\ bq \in CodecProjects
             /\ now = Now0
             /\ ticks = 0
             /\ jobs = <<>>
             /\ BackupIdle
             /\ CodecIdle
             /\ RestoreIdle
             /\ DeleteIdle
             /\ QueryIdle
NextCodec == \/ \E src \in CodecSources, t \in CodecInstants : CodecBackup(src, t)
             \/ ListBackupsCall
             \/ \E t \in CodecInstants : ResolveCall(t)

SpecCodec == InitCodec /\ [][NextCodec]_vars

\* the restore command without --backup-timestamp: listBackups(), the groups
\* of groupBackupsByTimestamp, the selection of group k, and restoreBackups
\* with the timestamp of that group, which resolves its backup datasets with
\* listBackupsForTimestamp
OfferedResolveCall(k) == /\ k \in DOMAIN groupBackupsByTimestamp(listBackups(getDatasets))
                         /\ listing' = listBackups(getDatasets)
                         /\ listedFrom' = DOMAIN bq
                         /\ resolveT' = groupBackupsByTimestamp(listBackups(getDatasets))[k].timestamp
                         /\ resolved' = listBackupsForTimestamp(getDatasets, groupBackupsByTimestamp(listBackups(getDatasets))[k].timestamp)
                         /\ resolvedFrom' = DOMAIN bq
                         /\ UNCHANGED encoded
                         /\ UNCHANGED <<wvars, bvars, rvars, dvars, qvars>>

NextOffered == \/ \E src \in CodecSources, t \in CodecInstants : CodecBackup(src, t)
               \/ \E k \in 1..(MaxBackups + 1) : OfferedResolveCall(k)

SpecOffered == InitCodec /\ [][NextOffered]_vars

(***************************************************************************)
(* RestoreService                                                          *)
(***************************************************************************)

MaxSnapshots == 2

\* 2024-12-15T14:30:22.000Z, the instant of the backups to restore, and
\* 2024-01-01T00:00:00.000Z, an instant of no backup
RestoreInstant == MkDate(20072, 52222, 0)

NoBackupInstant == MkDate(DaysFromCivil(2024, 0, 1), 0, 0)

RestoreOptions(ts, overwrite) == [backupTimestamp |-> ts, overwrite |-> overwrite]

RestoreInputs == {RestoreOptions(NoDate, FALSE), RestoreOptions(NoBackupInstant, FALSE), RestoreOptions(RestoreInstant, FALSE), RestoreOptions(RestoreInstant, TRUE)}

\* the snapshots t1 .. tn of a backup dataset, and a member that is no snapshot
SnapshotIds == <<"t1", "t2", "t3">>

Snapshots(n) == [t \in {SnapshotIds[i] : i \in 1..n} |-> Snapshot(CHOOSE i \in 1..n : SnapshotIds[i] = t)] @@ ("note" :> Table(7))

\* the projects a restore starts from: the backup of a with one snapshot per
\* table and a member that is no snapshot, the backup of b_1 with a snapshot
\* or none and with or without a location; the dataset a absent, or present
\* with a table and one or two materialized views, or with two tables; b_1
\* absent
RestoreProjects == {(generateBackupDatasetName(SrcA, RestoreInstant) :> [location |-> "US", tables |-> Snapshots(MaxSnapshots)]) @@ (generateBackupDatasetName(SrcB, RestoreInstant) :> b) @@ a : a \in {<<>>, (SrcA :> [location |-> "US", tables |-> ("t1" :> Table(9)) @@ ("mv1" :> MView(0))]), (SrcA :> [location |-> "US", tables |-> ("t1" :> Table(9)) @@ ("mv1" :> MView(0)) @@ ("mv2" :> MView(5))]), (SrcA :> [location |-> "US", tables |-> ("t1" :> Table(9)) @@ ("t2" :> Table(8))])}, b \in {[location |-> "EU", tables |-> <<>>], [location |-> "EU", tables |-> ("t1" :> Snapshot(4))], [location |-> NoLocation, tables |-> ("t1" :> Snapshot(4))]}}

RestoreErr(tableId, cause) == [kind |-> "restore", what |-> tableId, cause |-> cause]

\* the catch block of the loop body of restoreBackups
RestoreFailed(r, what) == [r EXCEPT !.errors = <<Err("backup", what)>>, !.success = FALSE]

\* the position after the body of the for loop of restoreBackups for index i
AfterBackup(i) == IF i + 1 > Len(backups) THEN "done" ELSE "listTables"

\* listBackupTables(backupDatasetId): the members of type SNAPSHOT in listing
\* order; a member whose getMetadata() fails (metaFails) is logged and left out
\* a listing that returns every member of the backup dataset, whatever its type
listBackupTables_AnyType(backupDatasetId, metaFails) == SeqFilterIn(TableOrder, {t \in DOMAIN bq[backupDatasetId].tables : t \notin metaFails})

listBackupTables(backupDatasetId, metaFails) == SeqFilterIn(TableOrder, {t \in DOMAIN bq[backupDatasetId].tables : t \notin metaFails /\ bq[backupDatasetId].tables[t].type = "SNAPSHOT"})

\* listMaterializedViews(datasetId): the members of type MATERIALIZED_VIEW in
\* listing order, each with its definition
listMaterializedViews(datasetId, metaFails) == LET ids == SeqFilterIn(TableOrder, {t \in DOMAIN bq[datasetId].tables : t \notin metaFails /\ bq[datasetId].tables[t].type = "MATERIALIZED_VIEW"}) IN [i \in 1..Len(ids) |-> [viewId |-> ids[i], query |-> bq[datasetId].tables[ids[i]].data]]

\* backupMetadata.location || 'US'
\* a target dataset that is always created in the default location
LocationOrUS_AlwaysUS(location) == "US"

LocationOrUS(location) == IF location = NoLocation THEN "US" ELSE location

\* if (targetExists && !overwrite) throw ... in restoreTable
TargetConflict_Never(targetExists, overwrite) == FALSE

TargetConflict(targetExists, overwrite) == targetExists /\ ~overwrite

\* the statement restoreTable builds
RestoreQuery(overwrite) == IF overwrite THEN "CREATE OR REPLACE TABLE CLONE" ELSE "CREATE TABLE CLONE"

CloneJob(query, sourceBackupDatasetId, sourceTableId, targetDatasetId, targetTableId) == [NoJob EXCEPT !.op = query, !.dataset = targetDatasetId, !.table = targetTableId, !.source = sourceBackupDatasetId]

DeleteViewJob(datasetId, viewId) == [NoJob EXCEPT !.op = "delete", !.dataset = datasetId, !.table = viewId]

CreateViewJob(datasetId, viewId) == [NoJob EXCEPT !.op = "CREATE MATERIALIZED VIEW", !.dataset = datasetId, !.table = viewId]

Without(tabs, t) == [x \in DOMAIN tabs \ {t} |-> tabs[x]]

\* a replacement that drops the target when the statement is submitted
CreateQueryJob_DropsTarget(tabs, query, targetTableId) == IF query = "CREATE OR REPLACE TABLE CLONE" THEN Without(tabs, targetTableId) ELSE tabs

\* the members of the target dataset while the statement of restoreTable runs:
\* CREATE [OR REPLACE] TABLE ... CLONE changes nothing before it completes
CreateQueryJob(tabs, query, targetTableId) == tabs

\* restoreResults.filter((r) => !r.success).map((f) => f.error): in the
\* order of the tables, whatever the order of completion
RECURSIVE FailedRestores(_, _)
\* errors collected in the order in which the restoreTable calls returned
FailedRestores_AsCompleted(tabs, st) == LET out == {e \in rsettled : e.idx = ri /\ e.outcome # "ok"}
                                        IN [i \in 1..Cardinality(out) |-> LET e == CHOOSE x \in out : Cardinality({y \in out : y.nth < x.nth}) = i - 1
                                                                          IN RestoreErr(e.table, IF e.outcome = "exists" THEN "already exists" ELSE "remote error")]

FailedRestores(tabs, st) == IF Len(tabs) = 0 THEN <<>> ELSE IF st[Head(tabs)] = "ok" THEN FailedRestores(Tail(tabs), st) ELSE <<RestoreErr(Head(tabs), IF st[Head(tabs)] = "exists" THEN "already exists" ELSE "remote error")>> \o FailedRestores(Tail(tabs), st)

\* restoreBackups(options) up to its first await
RestoreCall == /\ rpc = "idle"
               /\ \E o \in RestoreInputs :
                     /\ ropts' = o
                     /\ IF ~o.backupTimestamp.valid
                        THEN rpc' = "thrown" /\ rthrown' = "Backup timestamp is required"
                        ELSE rpc' = "resolve" /\ rthrown' = rthrown
               /\ rbefore' = bq
               /\ UNCHANGED <<backups, ri, tableIds, rresult, rresults, rtask, views, vi, recreated, rhist>>
               /\ UNCHANGED wvars
               /\ UNCHANGED <<rsettled, vhist>>
               /\ UNCHANGED <<bvars, cvars, dvars, qvars>>

\* listBackupsForTimestamp(options.backupTimestamp) returns; no backup
\* dataset for the instant is an error
RestoreResolve == /\ rpc = "resolve"
                  /\ \E fail \in BOOLEAN :
                        IF fail
                        THEN /\ rpc' = "thrown"
                             /\ rthrown' = "remote error"
                             /\ UNCHANGED <<backups, ri>>
                        ELSE /\ backups' = listBackupsForTimestamp(getDatasets, ropts.backupTimestamp)
                             /\ IF Len(backups') = 0
                                THEN rpc' = "thrown" /\ rthrown' = "No backup datasets found" /\ ri' = ri
                                ELSE rpc' = "listTables" /\ rthrown' = rthrown /\ ri' = 1
                  /\ UNCHANGED <<ropts, tableIds, rresult, rresults, rtask, views, vi, recreated, rbefore, rhist>>
                  /\ UNCHANGED wvars
                  /\ UNCHANGED <<rsettled, vhist>>
                  /\ UNCHANGED <<bvars, cvars, dvars, qvars>>

\* One iteration of the loop up to targetDataset.exists(): the result is
\* initialised, the snapshots are listed, a backup without snapshots is a
\* success
RestoreListTables == /\ rpc = "listTables"
                     /\ LET backup == backups[ri]
                            r0 == [sourceBackupDatasetId |-> backup.backupDatasetId, targetDatasetId |-> backup.sourceDatasetId, tablesRestored |-> 0, materializedViewsRecreated |-> 0, success |-> FALSE, errors |-> <<>>]
                        IN \E fail \in BOOLEAN, metaFails \in SUBSET (DOMAIN bq[backup.backupDatasetId].tables) :
                              IF fail
                              THEN /\ rresults' = Append(rresults, RestoreFailed(r0, "remote error"))
                                   /\ ri' = ri + 1
                                   /\ rpc' = AfterBackup(ri)
                                   /\ UNCHANGED <<tableIds, rresult>>
                              ELSE LET ids == listBackupTables(backup.backupDatasetId, metaFails)
                                   IN IF Len(ids) = 0
                                      THEN /\ rresults' = Append(rresults, [r0 EXCEPT !.success = TRUE])
                                           /\ ri' = ri + 1
                                           /\ rpc' = AfterBackup(ri)
                                           /\ UNCHANGED <<tableIds, rresult>>
                                      ELSE /\ tableIds' = ids
                                           /\ rresult' = r0
                                           /\ rpc' = "targetExists"
                                           /\ UNCHANGED <<rresults, ri>>
                     /\ UNCHANGED <<ropts, backups, rtask, views, vi, recreated, rthrown, rbefore, rhist>>
                     /\ UNCHANGED wvars
                     /\ UNCHANGED <<rsettled, vhist>>
                     /\ UNCHANGED <<bvars, cvars, dvars, qvars>>

\* targetDataset.exists() returns: an existing target goes on to
\* tableIds.map(...), where every restoreTable runs up to targetTable.exists();
\* a missing one asks for the backup dataset's metadata
RestoreTargetExists == /\ rpc = "targetExists"
                       /\ \E fail \in BOOLEAN :
                             IF fail
                             THEN /\ rresults' = Append(rresults, RestoreFailed(rresult, "remote error"))
                                  /\ ri' = ri + 1
                                  /\ rpc' = AfterBackup(ri)
                                  /\ rtask' = rtask
                             ELSE IF rresult.targetDatasetId \in DOMAIN bq
                             THEN /\ rtask' = [t \in Range(tableIds) |-> "checking"]
                                  /\ rpc' = "fanout"
                                  /\ UNCHANGED <<rresults, ri>>
                             ELSE /\ rpc' = "backupMeta"
                                  /\ UNCHANGED <<rresults, ri, rtask>>
                       /\ UNCHANGED <<ropts, backups, tableIds, rresult, views, vi, recreated, rthrown, rbefore, rhist>>
                       /\ UNCHANGED wvars
                       /\ UNCHANGED <<rsettled, vhist>>
                       /\ UNCHANGED <<bvars, cvars, dvars, qvars>>

\* backupDataset.getMetadata() returns: targetDataset.create() is sent with
\* the backup's location, or 'US'
RestoreBackupMeta == /\ rpc = "backupMeta"
                     /\ \E fail \in BOOLEAN :
                           IF fail
                           THEN /\ rresults' = Append(rresults, RestoreFailed(rresult, "remote error"))
                                /\ ri' = ri + 1
                                /\ rpc' = AfterBackup(ri)
                                /\ jobs' = jobs
                           ELSE /\ jobs' = Append(jobs, CreateDatasetJob(rresult.targetDatasetId, LocationOrUS(bq[rresult.sourceBackupDatasetId].location)))
                                /\ rpc' = "creating"
                                /\ UNCHANGED <<rresults, ri>>
                     /\ UNCHANGED <<ropts, backups, tableIds, rresult, rtask, views, vi, recreated, rthrown, rbefore, rhist>>
                     /\ UNCHANGED <<bq, now, ticks>>
                     /\ UNCHANGED <<rsettled, vhist>>
                     /\ UNCHANGED <<bvars, cvars, dvars, qvars>>

\* targetDataset.create() returns: on success the target dataset exists,
\* empty, and tableIds.map(...) runs every restoreTable up to
\* targetTable.exists()
RestoreTargetCreated == /\ rpc = "creating"
                        /\ \E ok \in BOOLEAN :
                              IF ok /\ rresult.targetDatasetId \notin DOMAIN bq
                              THEN /\ bq' = CreateDataset(rresult.targetDatasetId, jobs[Len(jobs)].location)
                                   /\ rtask' = [t \in Range(tableIds) |-> "checking"]
                                   /\ rpc' = "fanout"
                                   /\ UNCHANGED <<rresults, ri>>
                              ELSE /\ rresults' = Append(rresults, RestoreFailed(rresult, "remote error"))
                                   /\ ri' = ri + 1
                                   /\ rpc' = AfterBackup(ri)
                                   /\ UNCHANGED <<bq, rtask>>
                        /\ UNCHANGED <<ropts, backups, tableIds, rresult, views, vi, recreated, rthrown, rbefore, rhist>>
                        /\ UNCHANGED <<now, ticks, jobs>>
                        /\ UNCHANGED <<rsettled, vhist>>
                        /\ UNCHANGED <<bvars, cvars, dvars, qvars>>

\* the outcome of the restoreTable of table t of the idx-th backup, and how
\* many restoreTable calls of that backup had settled before it
Settled(idx, t, outcome) == [idx |-> idx, table |-> t, outcome |-> outcome, nth |-> Cardinality({e \in rsettled : e.idx = idx})]

\* targetTable.exists() of one restoreTable returns: an existing target
\* without overwrite is an error of that table; otherwise the statement is
\* submitted
RestoreTableChecked(t) == /\ rpc = "fanout"
                          /\ t \in DOMAIN rtask
                          /\ rtask[t] = "checking"
                          /\ LET target == rresult.targetDatasetId
                                 overwrite == ropts.overwrite
                                 targetExists == target \in DOMAIN bq /\ t \in DOMAIN bq[target].tables
                                 h == [idx |-> ri, table |-> t, existed |-> targetExists, seen |-> IF targetExists THEN bq[target].tables[t] ELSE Table(0), jobsLen |-> Len(jobs)]
                             IN \E fail \in BOOLEAN :
                                   IF fail
                                   THEN /\ rtask' = [rtask EXCEPT ![t] = "failed"]
                                        /\ rsettled' = rsettled \cup {Settled(ri, t, "failed")}
                                        /\ UNCHANGED <<bq, jobs, rhist>>
                                   ELSE IF TargetConflict(targetExists, overwrite)
                                   THEN /\ rtask' = [rtask EXCEPT ![t] = "exists"]
                                        /\ rsettled' = rsettled \cup {Settled(ri, t, "exists")}
                                        /\ rhist' = rhist \cup {h}
                                        /\ UNCHANGED <<bq, jobs>>
                                   ELSE /\ rtask' = [rtask EXCEPT ![t] = "cloning"]
                                        /\ rsettled' = rsettled
                                        /\ rhist' = rhist \cup {h}
                                        /\ jobs' = Append(jobs, CloneJob(RestoreQuery(overwrite), rresult.sourceBackupDatasetId, t, target, t))
                                        /\ bq' = [bq EXCEPT ![target].tables = CreateQueryJob(@, RestoreQuery(overwrite), t)]
                          /\ UNCHANGED <<rpc, ropts, backups, ri, tableIds, rresult, rresults, views, vi, recreated, rthrown, rbefore>>
                          /\ UNCHANGED <<now, ticks>>
                          /\ UNCHANGED vhist
                          /\ UNCHANGED <<bvars, cvars, dvars, qvars>>

\* the statement of one restoreTable settles (createQueryJob, then
\* job.promise()): on success the target table exists with the snapshot's
\* data, in one step; CREATE TABLE fails on an existing table; a failure
\* leaves the target dataset as it was
RestoreTableCloned(t) == /\ rpc = "fanout"
                         /\ t \in DOMAIN rtask
                         /\ rtask[t] = "cloning"
                         /\ LET src == rresult.sourceBackupDatasetId
                                target == rresult.targetDatasetId
                            IN \E ok \in BOOLEAN :
                                  IF ok /\ src \in DOMAIN bq /\ t \in DOMAIN bq[src].tables /\ target \in DOMAIN bq /\ (ropts.overwrite \/ t \notin DOMAIN bq[target].tables)
                                  THEN /\ bq' = [bq EXCEPT ![target].tables = (t :> Table(bq[src].tables[t].data)) @@ @]
                                       /\ rtask' = [rtask EXCEPT ![t] = "ok"]
                                       /\ rsettled' = rsettled \cup {Settled(ri, t, "ok")}
                                  ELSE /\ bq' = bq
                                       /\ rtask' = [rtask EXCEPT ![t] = "failed"]
                                       /\ rsettled' = rsettled \cup {Settled(ri, t, "failed")}
                         /\ UNCHANGED <<rpc, ropts, backups, ri, tableIds, rresult, rresults, views, vi, recreated, rthrown, rbefore, rhist>>
                         /\ UNCHANGED <<now, ticks, jobs>>
                         /\ UNCHANGED vhist
                         /\ UNCHANGED <<bvars, cvars, dvars, qvars>>

Restored(tabs, st) == Cardinality({i \in 1..Len(tabs) : st[tabs[i]] = "ok"})

\* a Promise.all that resolves with the first promise
AllSettled_First(st) == \E t \in DOMAIN st : st[t] \in {"ok", "exists", "failed"}

\* await Promise.all(restorePromises): every restoreTable has returned
AllSettled(st) == \A t \in DOMAIN st : st[t] \in {"ok", "exists", "failed"}

\* Promise.all(restorePromises) resolves once every table has settled; the
\* restored tables are counted and recreateMaterializedViewsInDataset asks
\* for the members of the target dataset
RestoreJoin == /\ rpc = "fanout"
               /\ AllSettled(rtask)
               /\ rresult' = [rresult EXCEPT !.tablesRestored = Restored(tableIds, rtask)]
               /\ rpc' = "listViews"
               /\ UNCHANGED <<ropts, backups, ri, tableIds, rresults, rtask, views, vi, recreated, rthrown, rbefore, rhist>>
               /\ UNCHANGED wvars
               /\ UNCHANGED <<rsettled, vhist>>
               /\ UNCHANGED <<bvars, cvars, dvars, qvars>>

\* the end of the loop body once count views are recreated: the result gets
\* its view count, its success and its errors, and is pushed
ViewsDone(count) == /\ rresults' = Append(rresults, LET failed == FailedRestores(tableIds, rtask) IN [rresult EXCEPT !.materializedViewsRecreated = count, !.success = (Len(failed) = 0), !.errors = failed])
                    /\ ri' = ri + 1
                    /\ rpc' = AfterBackup(ri)

\* a loop that gives up at the first view that is not recreated
AfterView_StopsOnFailure(count) == /\ recreated' = count
                                   /\ vhist' = vhist \cup {[idx |-> ri, viewId |-> views[vi].viewId, ok |-> count > recreated]}
                                   /\ vi' = vi + 1
                                   /\ IF vi + 1 > Len(views) \/ count = recreated THEN ViewsDone(count) ELSE rpc' = "viewExists" /\ UNCHANGED <<rresults, ri>>

\* the end of one iteration of the loop of recreateMaterializedViewsInDataset
AfterView(count) == /\ recreated' = count
                    /\ vhist' = vhist \cup {[idx |-> ri, viewId |-> views[vi].viewId, ok |-> count > recreated]}
                    /\ vi' = vi + 1
                    /\ IF vi + 1 > Len(views) THEN ViewsDone(count) ELSE rpc' = "viewExists" /\ UNCHANGED <<rresults, ri>>

\* listMaterializedViews(targetDatasetId) returns: a failure or no view ends
\* the recreation with 0; otherwise the first view.exists() is sent
RestoreListViews == /\ rpc = "listViews"
                    /\ \E fail \in BOOLEAN, metaFails \in SUBSET (DOMAIN bq[rresult.targetDatasetId].tables) :
                          LET mvs == IF fail THEN <<>> ELSE listMaterializedViews(rresult.targetDatasetId, metaFails)
                          IN /\ views' = mvs
                             /\ recreated' = 0
                             /\ IF Len(mvs) = 0
                                THEN ViewsDone(0) /\ vi' = 0
                                ELSE rpc' = "viewExists" /\ vi' = 1 /\ UNCHANGED <<rresults, ri>>
                    /\ UNCHANGED <<ropts, backups, tableIds, rresult, rtask, rthrown, rbefore, rhist>>
                    /\ UNCHANGED wvars
                    /\ UNCHANGED <<rsettled, vhist>>
                    /\ UNCHANGED <<bvars, cvars, dvars, qvars>>

\* view.exists() of recreateMaterializedView returns: an existing view is
\* deleted first, a missing one is created at once
RestoreViewExists == /\ rpc = "viewExists"
                     /\ LET target == rresult.targetDatasetId
                            viewId == views[vi].viewId
                        IN \E fail \in BOOLEAN :
                              IF fail
                              THEN AfterView(recreated) /\ jobs' = jobs
                              ELSE IF viewId \in DOMAIN bq[target].tables
                              THEN /\ jobs' = Append(jobs, DeleteViewJob(target, viewId))
                                   /\ rpc' = "viewDelete"
                                   /\ UNCHANGED <<rresults, ri, vi, recreated, vhist>>
                              ELSE /\ jobs' = Append(jobs, CreateViewJob(target, viewId))
                                   /\ rpc' = "viewCreate"
                                   /\ UNCHANGED <<rresults, ri, vi, recreated, vhist>>
                     /\ UNCHANGED <<ropts, backups, tableIds, rresult, rtask, views, rthrown, rbefore, rhist>>
                     /\ UNCHANGED <<bq, now, ticks>>
                     /\ UNCHANGED rsettled
                     /\ UNCHANGED <<bvars, cvars, dvars, qvars>>

\* view.delete() returns: on success the view is gone and the statement that
\* creates it again is submitted
RestoreViewDeleted == /\ rpc = "viewDelete"
                      /\ LET target == rresult.targetDatasetId
                             viewId == views[vi].viewId
                         IN \E ok \in BOOLEAN :
                               IF ok /\ viewId \in DOMAIN bq[target].tables
                               THEN /\ bq' = [bq EXCEPT ![target].tables = Without(@, viewId)]
                                    /\ jobs' = Append(jobs, CreateViewJob(target, viewId))
                                    /\ rpc' = "viewCreate"
                                    /\ UNCHANGED <<rresults, ri, vi, recreated, vhist>>
                               ELSE AfterView(recreated) /\ UNCHANGED <<bq, jobs>>
                      /\ UNCHANGED <<ropts, backups, tableIds, rresult, rtask, views, rthrown, rbefore, rhist>>
                      /\ UNCHANGED <<now, ticks>>
                      /\ UNCHANGED rsettled
                      /\ UNCHANGED <<bvars, cvars, dvars, qvars>>

\* CREATE MATERIALIZED VIEW settles (createQueryJob, then job.promise()): on
\* success the view exists with its definition and is counted
RestoreViewCreated == /\ rpc = "viewCreate"
                      /\ LET target == rresult.targetDatasetId
                             mv == views[vi]
                         IN \E ok \in BOOLEAN :
                               IF ok /\ mv.viewId \notin DOMAIN bq[target].tables
                               THEN /\ bq' = [bq EXCEPT ![target].tables = (mv.viewId :> MView(mv.query)) @@ @]
                                    /\ AfterView(recreated + 1)
                               ELSE AfterView(recreated) /\ bq' = bq
                      /\ UNCHANGED <<ropts, backups, tableIds, rresult, rtask, views, rthrown, rbefore, rhist>>
                      /\ UNCHANGED <<now, ticks, jobs>>
                      /\ UNCHANGED rsettled
                      /\ UNCHANGED <<bvars, cvars, dvars, qvars>>

InitRestore == /\ bq \in RestoreProjects
               /\ now = Now0
               /\ ticks = 0
               /\ jobs = <<>>
               /\ BackupIdle
               /\ CodecIdle
               /\ RestoreIdle
               /\ DeleteIdle
               /\ QueryIdle
NextRestore == \/ RestoreCall
               \/ RestoreResolve
               \/ RestoreListTables
               \/ RestoreTargetExists
               \/ RestoreBackupMeta
               \/ RestoreTargetCreated
               \/ \E t \in Range(TableOrder) : RestoreTableChecked(t)
               \/ \E t \in Range(TableOrder) : RestoreTableCloned(t)
               \/ RestoreJoin
               \/ RestoreListViews
               \/ RestoreViewExists
               \/ RestoreViewDeleted
               \/ RestoreViewCreated

SpecRestore == InitRestore /\ [][NextRestore]_vars

(***************************************************************************)
(* groupBackupsByTimestamp on its own                                      *)
(***************************************************************************)

MaxGroupInput == 3

BackupInfoOf(src, t) == [backupDatasetId |-> generateBackupDatasetName(src, t), sourceDatasetId |-> src, timestamp |-> t]

\* 2024-02-29T23:59:59.000Z
LeapInstant == MkDate(DaysFromCivil(2024, 1, 29), 86399, 0)

\* backups of a and b_1 at 2024-12-15T14:30:22.000Z, of a half a second
\* later, of a and b_1 at 2024-01-01T00:00:00.000Z, of a on 2024-02-29
GroupInfos == {BackupInfoOf(SrcA, RestoreInstant), BackupInfoOf(SrcB, RestoreInstant), BackupInfoOf(SrcA, Now0), BackupInfoOf(SrcA, NoBackupInstant), BackupInfoOf(SrcB, NoBackupInstant), BackupInfoOf(SrcA, LeapInstant)}

\* the arguments of groupBackupsByTimestamp: every list of distinct backups,
\* in every order
GroupInputs == UNION {{q \in [1..n -> GroupInfos] : \A i, j \in 1..n : i # j => q[i] # q[j]} : n \in 0..MaxGroupInput}

GroupCall == /\ dpc = "idle"
             /\ \E input \in GroupInputs :
                   /\ dbackups' = input
                   /\ groups' = groupBackupsByTimestamp(input)
             /\ UNCHANGED <<dpc, selAnswer, selected, confAnswer, dqueue, di, successCount, errorCount, dexit, dhist, vanished>>
             /\ UNCHANGED <<wvars, bvars, cvars, rvars, qvars>>

InitGroup == /\ bq = (SrcA :> EmptyDataset("US"))
             /\ now = Now0
             /\ ticks = 0
             /\ jobs = <<>>
             /\ BackupIdle
             /\ CodecIdle
             /\ RestoreIdle
             /\ DeleteIdle
             /\ QueryIdle

NextGroup == GroupCall

SpecGroup == InitGroup /\ [][NextGroup]_vars

(***************************************************************************)
(* restoreBackups on a project with bystanders                             *)
(***************************************************************************)

\* the backup of a at RestoreInstant, an older backup of a, the dataset b_1
\* that has no backup, and the target a, missing or holding the table t1,
\* the table x1 that no snapshot names, and a materialized view
FrameProjects == {(generateBackupDatasetName(SrcA, RestoreInstant) :> [location |-> "US", tables |-> Snapshots(MaxSnapshots)]) @@ (generateBackupDatasetName(SrcA, NoBackupInstant) :> [location |-> "US", tables |-> ("t1" :> Snapshot(1))]) @@ (SrcB :> [location |-> "EU", tables |-> ("t1" :> Table(3))]) @@ a : a \in {<<>>, (SrcA :> [location |-> "US", tables |-> ("t1" :> Table(9)) @@ ("x1" :> Table(6)) @@ ("mv1" :> MView(0))])}}

InitFrame == /\ bq \in FrameProjects
             /\ now = Now0
             /\ ticks = 0
             /\ jobs = <<>>
             /\ BackupIdle
             /\ CodecIdle
             /\ RestoreIdle
             /\ DeleteIdle
             /\ QueryIdle

SpecFrame == InitFrame /\ [][NextRestore]_vars

(***************************************************************************)
(* backupDataset, changes to the source, then restoreBackups               *)
(***************************************************************************)

\* the project of the round trip: the dataset a with two tables and a
\* materialized view
RoundTripProject == (SrcA :> [location |-> "US", tables |-> ("t1" :> Table(1)) @@ ("t2" :> Table(2)) @@ ("mv1" :> MView(0))])

\* the table an actor other than the tool puts in the place of one
ChangedTable == Table(5)

\* backupDataset({datasets: ['a']}) with an instant inside the time-travel
\* window or none, up to its first await
RoundTripBackupCall == /\ bpc = "idle"
                       /\ rpc = "idle"
                       /\ \E o \in {BackupOptions(ts, <<SrcA>>, DEFAULT_EXPIRATION_DAYS, FALSE) : ts \in {NoDate, EarlierBackup}} :
                             /\ options' = o
                             /\ backupTimestamp' = (IF o.timestamp.valid THEN o.timestamp ELSE now)
                             /\ expirationTimestamp' = calculateExpirationTimestamp(backupTimestamp', o.expirationDays)
                             /\ IF o.timestamp.valid /\ ~validateTimeTravelTimestamp(o.timestamp, now)
                                THEN bpc' = "thrown" /\ thrown' = "Invalid timestamp for time travel"
                                ELSE bpc' = "listDatasets" /\ thrown' = thrown
                       /\ calledAt' = now
                       /\ UNCHANGED <<datasets, bi, tables, result, results, snap, listed, settled, made, collided>>
                       /\ UNCHANGED wvars
                       /\ UNCHANGED <<cvars, rvars, dvars, qvars>>

\* between the two calls another actor overwrites or drops a table of a
TableChanged(t) == /\ bpc = "done"
                   /\ rpc = "idle"
                   /\ SrcA \in DOMAIN bq
                   /\ t \in DOMAIN bq[SrcA].tables
                   /\ bq[SrcA].tables[t] = RoundTripProject[SrcA].tables[t]
                   /\ bq[SrcA].tables[t].type = "TABLE"
                   /\ \/ bq' = [bq EXCEPT ![SrcA].tables[t] = ChangedTable]
                      \/ bq' = [bq EXCEPT ![SrcA].tables = Without(@, t)]
                   /\ UNCHANGED <<now, ticks, jobs>>
                   /\ UNCHANGED <<bvars, cvars, rvars, dvars, qvars>>

\* between the two calls another actor drops the dataset a with all it holds
SourceDropped == /\ bpc = "done"
                 /\ rpc = "idle"
                 /\ SrcA \in DOMAIN bq
                 /\ bq' = [d \in DOMAIN bq \ {SrcA} |-> bq[d]]
                 /\ UNCHANGED <<now, ticks, jobs>>
                 /\ UNCHANGED <<bvars, cvars, rvars, dvars, qvars>>

\* restoreBackups({backupTimestamp: T, overwrite}) for the instant T of the
\* backup call, up to its first await
RoundTripRestoreCall == /\ bpc = "done"
                        /\ rpc = "idle"
                        /\ \E overwrite \in BOOLEAN :
                              /\ ropts' = RestoreOptions(backupTimestamp, overwrite)
                              /\ rpc' = "resolve"
                        /\ rbefore' = bq
                        /\ UNCHANGED <<backups, ri, tableIds, rresult, rresults, rtask, views, vi, recreated, rthrown, rhist>>
                        /\ UNCHANGED wvars
                        /\ UNCHANGED <<rsettled, vhist>>
                        /\ UNCHANGED <<bvars, cvars, dvars, qvars>>

InitRoundTrip == /\ bq = RoundTripProject
                 /\ now = Now0
                 /\ ticks = 0
                 /\ jobs = <<>>
                 /\ BackupIdle
                 /\ CodecIdle
                 /\ RestoreIdle
                 /\ DeleteIdle
                 /\ QueryIdle

NextRoundTrip == \/ RoundTripBackupCall
                 \/ BackupListDatasets
                 \/ BackupListTables
                 \/ BackupExists
                 \/ BackupCreated
                 \/ \E t \in Range(TableOrder) : SnapshotSettled(t)
                 \/ BackupJoin
                 \/ \E t \in Range(TableOrder) : TableChanged(t)
                 \/ SourceDropped
                 \/ RoundTripRestoreCall
                 \/ RestoreResolve
                 \/ RestoreListTables
                 \/ RestoreTargetExists
                 \/ RestoreBackupMeta
                 \/ RestoreTargetCreated
                 \/ \E t \in Range(TableOrder) : RestoreTableChecked(t)
                 \/ \E t \in Range(TableOrder) : RestoreTableCloned(t)
                 \/ RestoreJoin
                 \/ RestoreListViews
                 \/ RestoreViewExists
                 \/ RestoreViewDeleted
                 \/ RestoreViewCreated

SpecRoundTrip == InitRoundTrip /\ [][NextRoundTrip]_vars

(***************************************************************************)
(* restoreBackups on a project whose source dataset has a stamped name     *)
(***************************************************************************)

\* the project holds, besides the backups of RestoreProjects, the backup
\* taken at NoBackupInstant of the dataset a_20241215_143022
StampedProjects == {(generateBackupDatasetName(SrcStamped, NoBackupInstant) :> [location |-> "US", tables |-> ("t1" :> Snapshot(1))])}

InitStamped == /\ bq \in RestoreProjects \cup StampedProjects
               /\ now = Now0
               /\ ticks = 0
               /\ jobs = <<>>
               /\ BackupIdle
               /\ CodecIdle
               /\ RestoreIdle
               /\ DeleteIdle
               /\ QueryIdle

SpecStamped == InitStamped /\ [][NextRestore]_vars

(***************************************************************************)
(* calculateExpirationTimestamp as a function                              *)
(***************************************************************************)

MaxExpirationDays == 12

\* 2024-02-28T23:59:59.999Z, 2024-02-29T00:00:00Z, 2023-02-28T12:00:00Z,
\* 2024-12-31T23:59:59.999Z, 2024-01-31T00:00:00Z, 2100-02-28T06:00:00.001Z,
\* 2000-02-28T06:00:00Z, 1970-01-01T00:00:00Z and Now0
ExpirationInstants == {MkDate(DaysFromCivil(2024, 1, 28), 86399, 999), MkDate(DaysFromCivil(2024, 1, 29), 0, 0), MkDate(DaysFromCivil(2023, 1, 28), 43200, 0), MkDate(DaysFromCivil(2024, 11, 31), 86399, 999), MkDate(DaysFromCivil(2024, 0, 31), 0, 0), MkDate(DaysFromCivil(2100, 1, 28), 21600, 1), MkDate(DaysFromCivil(2000, 1, 28), 21600, 0), MkDate(0, 0, 0), Now0}

\* the retention periods tried: 0 to MaxExpirationDays days, the default, a
\* year and a leap year
ExpirationDays == (0..MaxExpirationDays) \cup {DEFAULT_EXPIRATION_DAYS, 365, 366}

\* the caller's Date after the call: const expiration = new Date(backupTimestamp)
\* copies it, and setUTCDate changes the copy
InputAfterExpiration(input, expiration) == input

\* calculateExpirationTimestamp(instant, n) is called and returns
ExpirationCall == /\ bpc = "idle"
                  /\ \E instant \in ExpirationInstants, n \in ExpirationDays :
                        /\ calledAt' = instant
                        /\ options' = [options EXCEPT !.expirationDays = n]
                        /\ expirationTimestamp' = calculateExpirationTimestamp(instant, n)
                        /\ backupTimestamp' = InputAfterExpiration(instant, expirationTimestamp')
                  /\ bpc' = "expiration"
                  /\ UNCHANGED <<datasets, bi, tables, result, results, snap, thrown, listed, settled, made, collided>>
                  /\ UNCHANGED wvars
                  /\ UNCHANGED <<cvars, rvars, dvars, qvars>>

SpecExpiration == InitGroup /\ [][ExpirationCall]_vars

(***************************************************************************)
(* One command of the tool: a backup or a restore                          *)
(***************************************************************************)

InitServices == InitBackup \/ InitRestore

\* the process runs backupDataset; the clock stands still here, its advance
\* during a call is explored by SpecBackup
BackupCommand == /\ rpc = "idle"
                 /\ \/ BackupCall
                    \/ BackupListDatasets
                    \/ BackupListTables
                    \/ BackupExists
                    \/ BackupCreated
                    \/ \E t \in Range(TableOrder) : SnapshotSettled(t)
                    \/ BackupJoin

\* the process runs restoreBackups
RestoreCommand == bpc = "idle" /\ NextRestore

NextServices == \/ BackupCommand
                \/ RestoreCommand

SpecServices == InitServices /\ [][NextServices]_vars

(***************************************************************************)
(* One backupDataset call on a project with members of every type          *)
(***************************************************************************)

InitMembers == /\ bq \in BackupProjects \cup MemberProjects
               /\ now = Now0
               /\ ticks = 0
               /\ jobs = <<>>
               /\ BackupIdle
               /\ CodecIdle
               /\ RestoreIdle
               /\ DeleteIdle
               /\ QueryIdle

SpecMembers == InitMembers /\ [][BackupCommand]_vars

(***************************************************************************)
(* The rabbit_bq_query shell function                                      *)
(***************************************************************************)

\* one word of a command line: a flag (-q, --reservation_id, -), a flag
\* with its value attached (--reservation_id=VALUE, --label=KEY:VALUE; the
\* value is the sequence of its parts), or a word that does not start with -
Flag(name) == [kind |-> "flag", name |-> name, value |-> <<>>]

FlagEq(name, value) == [kind |-> "flag=", name |-> name, value |-> value]

Word(text) == [kind |-> "word", name |-> text, value |-> <<>>]

\* [[ "$arg" == -* ]]
IsFlagArg(arg) == arg.kind # "word"

\* the case of the flags that take a value: the word is exactly the flag
TakesValue(arg) == arg.kind = "flag" /\ arg.name \in {"--destination_table", "--format", "--max_rows", "--job_id", "--job_id_file", "--location", "--project_id", "--dataset_id", "--table_id", "--reservation_id", "-n"}

\* filtered_args: the arguments without --debug_mode
RECURSIVE FilteredArgs(_)
FilteredArgs(args) == IF Len(args) = 0 THEN <<>> ELSE IF Head(args) = Flag("--debug_mode") THEN FilteredArgs(Tail(args)) ELSE <<Head(args)>> \o FilteredArgs(Tail(args))

\* the checks of the environment variables before anything runs
EnvError(env) == \/ env.RABBIT_API_KEY = ""
                 \/ env.BQ_OPTIMIZER_DEFAULT_PRICING_MODE = ""
                 \/ env.BQ_OPTIMIZER_RESERVATION_IDS = ""
                 \/ env.BQ_OPTIMIZER_DEFAULT_PRICING_MODE \notin {"on_demand", "slot_based"}

\* the loop that finds the first word that is no flag, from index i (counted
\* from 0); query_start keeps its initial 0 when there is none
RECURSIVE QueryStart(_, _)
QueryStart(args, i) == IF i >= Len(args) THEN 0 ELSE IF ~IsFlagArg(args[i + 1]) THEN i ELSE IF TakesValue(args[i + 1]) THEN QueryStart(args, i + 2) ELSE QueryStart(args, i + 1)

\* the query text as the words it is joined from: the text read from stdin
\* when an argument is -, otherwise the arguments from query_start on
ExtractQuery(args, stdin) == IF \E i \in DOMAIN args : args[i] = Flag("-") THEN stdin ELSE LET query_start == QueryStart(args, 0) IN IF query_start < Len(args) THEN SubSeq(args, query_start + 1, Len(args)) ELSE <<>>

\* the loop that separates flags from query words, from index i (counted
\* from 0): flags, each with the value that follows it when it takes one
RECURSIVE BqCmdArgs(_, _)
BqCmdArgs(args, i) == IF i >= Len(args) THEN <<>> ELSE IF ~IsFlagArg(args[i + 1]) THEN BqCmdArgs(args, i + 1) ELSE IF TakesValue(args[i + 1]) THEN <<args[i + 1]>> \o (IF i + 1 < Len(args) THEN <<args[i + 2]>> ELSE <<>>) \o BqCmdArgs(args, i + 2) ELSE <<args[i + 1]>> \o BqCmdArgs(args, i + 1)

\* the same loop: the words that are no flag and no value of a flag
RECURSIVE QueryArgs(_, _)
QueryArgs(args, i) == IF i >= Len(args) THEN <<>> ELSE IF ~IsFlagArg(args[i + 1]) THEN <<args[i + 1]>> \o QueryArgs(args, i + 1) ELSE IF TakesValue(args[i + 1]) THEN QueryArgs(args, i + 2) ELSE QueryArgs(args, i + 1)

\* .optimizedJob.configuration.reservation // empty, as the parts of its
\* text: nothing, the text null, the text none, the fully qualified form
\* projects/P/locations/L/reservations/N, or the short form P:L.N
FullReservation == <<"projects", "p", "locations", "us", "reservations", "r">>

ShortReservation == <<"p", "us", "r">>

\* the handling of the reservation of the response: the text of
\* reservation_id, empty when no reservation is assigned
ReservationId(reservation_id_full) == IF reservation_id_full = <<>> \/ reservation_id_full = <<"null">> THEN <<>> ELSE IF reservation_id_full = <<"none">> THEN <<"none">> ELSE IF Len(reservation_id_full) = 6 /\ reservation_id_full[1] = "projects" /\ reservation_id_full[3] = "locations" /\ reservation_id_full[5] = "reservations" THEN <<reservation_id_full[2], reservation_id_full[4], reservation_id_full[6]>> ELSE reservation_id_full

UseReservation(reservation_id_full) == ~(reservation_id_full = <<>> \/ reservation_id_full = <<"null">>)

\* --reservation_id is already in the arguments (user-specified)
HasReservationFlag(args) == \E i \in DOMAIN args : args[i].name = "--reservation_id" /\ args[i].kind \in {"flag", "flag="}

\* the reservation flag is added only if not already present
WithReservation(args, use, id) == IF use /\ id # <<>> /\ ~HasReservationFlag(args) THEN Append(args, FlagEq("--reservation_id", id)) ELSE args

\* [[ "$arg" == --label=* ]] && [[ "$arg" == *"$label_key:"* ]]; the keys of
\* the labels here are no part of one another, of a value or of a flag name
LabelExists(args, label_key) == \E i \in DOMAIN args : args[i].kind = "flag=" /\ args[i].name = "--label" /\ args[i].value[1] = label_key

\* the labels of the optimized configuration, in the order of jq keys[], each
\* added as --label=KEY:VALUE unless its value is empty or null or the key is
\* already in the arguments
RECURSIVE WithLabels(_, _)
WithLabels(args, labels) == IF Len(labels) = 0 THEN args ELSE LET label_key == Head(labels).key label_value == Head(labels).value IN IF label_value # "" /\ label_value # "null" /\ ~LabelExists(args, label_key) THEN WithLabels(Append(args, FlagEq("--label", <<label_key, label_value>>)), Tail(labels)) ELSE WithLabels(args, Tail(labels))

QueryArgLists == {<<>>, <<Flag("-q"), Word("SELECT 1")>>, <<FlagEq("--reservation_id", <<"mine">>), Word("SELECT 1")>>, <<Flag("--reservation_id"), Word("mine"), Word("SELECT 1")>>, <<FlagEq("--reservation_id", ShortReservation), Word("SELECT 1")>>, <<Flag("--debug_mode"), Flag("-n"), Word("10"), FlagEq("--label", <<"team", "x">>), Word("SELECT"), Word("1")>>, <<Flag("--nouse_legacy_sql"), Flag("-")>>}

QueryEnvs == {[RABBIT_API_KEY |-> k, BQ_OPTIMIZER_DEFAULT_PRICING_MODE |-> m, BQ_OPTIMIZER_RESERVATION_IDS |-> "p:us.r"] : k \in {"", "key"}, m \in {"", "on_demand", "flat"}} \cup {[RABBIT_API_KEY |-> "key", BQ_OPTIMIZER_DEFAULT_PRICING_MODE |-> "slot_based", BQ_OPTIMIZER_RESERVATION_IDS |-> ""]}

QueryStdin == {<<>>, <<Word("SELECT 2")>>}

\* what the call of the Rabbit API gives: the HTTP code (000 when curl gets
\* no answer) and, with 200, the reservation and the labels of the response
ApiResponses == {[http_code |-> "200", reservation |-> r, labels |-> l] : r \in {<<>>, <<"null">>, <<"none">>, FullReservation, ShortReservation}, l \in {<<>>, <<[key |-> "rabbit", value |-> "opt"]>>, <<[key |-> "empty", value |-> ""], [key |-> "team", value |-> "y"]>>}} \cup {[http_code |-> c, reservation |-> <<>>, labels |-> <<>>] : c \in {"500", "000"}}

\* the exit statuses of a bq query command
ExitStatuses == {0, 1, 2}

\* rabbit_bq_query "$@" up to the first command it runs: the arguments are
\* filtered, a bad environment returns 1, a missing jq or an empty query runs
\* bq query with the original arguments, otherwise the Rabbit API is called
QueryCall == /\ qpc = "idle"
             /\ \E args \in QueryArgLists, env \in QueryEnvs, jq \in BOOLEAN, stdin \in QueryStdin :
                   /\ debug_mode' = (\E i \in DOMAIN args : args[i] = Flag("--debug_mode"))
                   /\ original_args' = FilteredArgs(args)
                   /\ IF EnvError(env)
                      THEN /\ qpc' = "done"
                           /\ exit_code' = 1
                      ELSE /\ qpc' = (IF ~jq \/ ExtractQuery(FilteredArgs(args), stdin) = <<>> THEN "direct" ELSE "optimize")
                           /\ exit_code' = exit_code
             /\ UNCHANGED <<use_reservation, reservation_id, has_reservation_flag, labels_json, bq_cmd_args, query_args, executed>>
             /\ UNCHANGED <<wvars, bvars, cvars, rvars, dvars>>

\* bq query "${original_args[@]}"; return $?
DirectExecuted == /\ qpc = "direct"
                  /\ \E status \in ExitStatuses :
                        /\ executed' = Append(executed, [args |-> original_args, status |-> status])
                        /\ exit_code' = status
                  /\ qpc' = "done"
                  /\ UNCHANGED <<original_args, debug_mode, use_reservation, reservation_id, has_reservation_flag, labels_json, bq_cmd_args, query_args>>
                  /\ UNCHANGED <<wvars, bvars, cvars, rvars, dvars>>

\* curl returns: the reservation and the labels are taken from a 200
\* response, the flags are separated from the query words, and the
\* reservation flag and the label flags are added to the flags
Optimized == /\ qpc = "optimize"
             /\ \E response \in ApiResponses :
                   LET flags == BqCmdArgs(original_args, 0)
                       use == response.http_code = "200" /\ UseReservation(response.reservation)
                       id == IF response.http_code = "200" THEN ReservationId(response.reservation) ELSE <<>>
                       labels == IF response.http_code = "200" THEN response.labels ELSE <<>>
                   IN /\ use_reservation' = use
                      /\ reservation_id' = id
                      /\ labels_json' = labels
                      /\ has_reservation_flag' = (use /\ id # <<>> /\ HasReservationFlag(flags))
                      /\ bq_cmd_args' = WithLabels(WithReservation(flags, use, id), labels)
                      /\ query_args' = QueryArgs(original_args, 0)
             /\ qpc' = "first"
             /\ UNCHANGED <<original_args, debug_mode, exit_code, executed>>
             /\ UNCHANGED <<wvars, bvars, cvars, rvars, dvars>>

\* bq query "${bq_cmd_args[@]}" "${query_args[@]}" || exit_code=$? and the
\* test that decides on the fallback
FirstExecuted == /\ qpc = "first"
                 /\ \E status \in ExitStatuses :
                       /\ executed' = Append(executed, [args |-> bq_cmd_args \o query_args, status |-> status])
                       /\ exit_code' = (IF status # 0 THEN status ELSE exit_code)
                       /\ qpc' = (IF status # 0 /\ use_reservation /\ reservation_id # <<>> THEN "fallback" ELSE "done")
                 /\ UNCHANGED <<original_args, debug_mode, use_reservation, reservation_id, has_reservation_flag, labels_json, bq_cmd_args, query_args>>
                 /\ UNCHANGED <<wvars, bvars, cvars, rvars, dvars>>

\* bq query "${original_args[@]}" || exit_code=$?; return $exit_code
FallbackExecuted == /\ qpc = "fallback"
                    /\ \E status \in ExitStatuses :
                          /\ executed' = Append(executed, [args |-> original_args, status |-> status])
                          /\ exit_code' = (IF status # 0 THEN status ELSE exit_code)
                    /\ qpc' = "done"
                    /\ UNCHANGED <<original_args, debug_mode, use_reservation, reservation_id, has_reservation_flag, labels_json, bq_cmd_args, query_args>>
                    /\ UNCHANGED <<wvars, bvars, cvars, rvars, dvars>>

NextQuery == \/ QueryCall
             \/ DirectExecuted
             \/ Optimized
             \/ FirstExecuted
             \/ FallbackExecuted

SpecQuery == InitGroup /\ [][NextQuery]_vars

(***************************************************************************)
(* The delete-backups command and DeleteBackupsService                     *)
(***************************************************************************)

MaxVanish == 1

\* answer.toLowerCase()
ToLowerCase(str) == LET UpperLetters == <<"A", "B", "C", "D", "E", "F", "G", "H", "I", "J", "K", "L", "M", "N", "O", "P", "Q", "R", "S", "T", "U", "V", "W", "X", "Y", "Z">>
                        LowerLetters == <<"a", "b", "c", "d", "e", "f", "g", "h", "i", "j", "k", "l", "m", "n", "o", "p", "q", "r", "s", "t", "u", "v", "w", "x", "y", "z">>
                    IN [i \in 1..Len(str) |-> IF \E k \in 1..26 : UpperLetters[k] = str[i] THEN LowerLetters[CHOOSE k \in 1..26 : UpperLetters[k] = str[i]] ELSE str[i]]

\* what the user may type at the selection prompt: 1, 2, 3, 0, q, Q, quit,
\* abc, 1x, nothing
SelectionAnswers == {<<"1">>, <<"2">>, <<"3">>, <<"0">>, <<"q">>, <<"Q">>, <<"q", "u", "i", "t">>, <<"a", "b", "c">>, <<"1", "x">>, <<>>}

\* what the user may type at the confirmation prompt: yes, YES, y, no, nothing
ConfirmAnswers == {<<"y", "e", "s">>, <<"Y", "E", "S">>, <<"y">>, <<"n", "o">>, <<>>}

BackupDataset(data) == [location |-> "US", tables |-> ("t1" :> Snapshot(data))]

\* the projects the command starts from: the dataset a, and no backup, or the
\* backup of a at one instant, or the backups of a and b_1 at that instant and
\* the backup of a at another
DeleteProjects == {(SrcA :> EmptyDataset("US")) @@ b : b \in {<<>>, (generateBackupDatasetName(SrcA, RestoreInstant) :> BackupDataset(1)), (generateBackupDatasetName(SrcA, RestoreInstant) :> BackupDataset(1)) @@ (generateBackupDatasetName(SrcB, RestoreInstant) :> BackupDataset(4)) @@ (generateBackupDatasetName(SrcA, NoBackupInstant) :> BackupDataset(2))}}

DeleteDatasetJob(backupDatasetId) == [NoJob EXCEPT !.op = "deleteDataset", !.dataset = backupDatasetId]

\* the command is started: listService.listBackups() is called
DeleteCommand == /\ dpc = "idle"
                 /\ dpc' = "listing"
                 /\ UNCHANGED <<dbackups, groups, selAnswer, selected, confAnswer, dqueue, di, successCount, errorCount, dexit, dhist, vanished>>
                 /\ UNCHANGED <<wvars, bvars, cvars, rvars, qvars>>

\* listBackups() returns: a failure exits with 1, no backup exits with 0;
\* otherwise the backups are grouped and displayed and the selection is asked
DeleteListed == /\ dpc = "listing"
                /\ \E fail \in BOOLEAN :
                      IF fail
                      THEN /\ dpc' = "exited" /\ dexit' = 1
                           /\ UNCHANGED <<dbackups, groups>>
                      ELSE /\ dbackups' = listBackups(getDatasets)
                           /\ IF Len(dbackups') = 0
                              THEN dpc' = "exited" /\ dexit' = 0 /\ groups' = groups
                              ELSE dpc' = "select" /\ dexit' = dexit /\ groups' = groupBackupsByTimestamp(dbackups')
                /\ UNCHANGED <<selAnswer, selected, confAnswer, dqueue, di, successCount, errorCount, dhist, vanished>>
                /\ UNCHANGED <<wvars, bvars, cvars, rvars, qvars>>

\* promptForSelection(groups.length): the answer arrives; q or quit exits with
\* 0, an index that parseInt does not find in 1..maxIndex exits with 1;
\* otherwise the group is selected and the confirmation is asked
SelectionAnswered == /\ dpc = "select"
                     /\ \E answer \in SelectionAnswers :
                           /\ selAnswer' = answer
                           /\ IF ToLowerCase(answer) = <<"q">> \/ ToLowerCase(answer) = <<"q", "u", "i", "t">>
                              THEN dpc' = "exited" /\ dexit' = 0 /\ selected' = selected
                              ELSE LET index == ParseInt(answer)
                                   IN IF index.nan \/ index.val < 1 \/ index.val > Len(groups)
                                      THEN dpc' = "exited" /\ dexit' = 1 /\ selected' = selected
                                      ELSE dpc' = "confirm" /\ dexit' = dexit /\ selected' = index.val - 1
                     /\ UNCHANGED <<dbackups, groups, confAnswer, dqueue, di, successCount, errorCount, dhist, vanished>>
                     /\ UNCHANGED <<wvars, bvars, cvars, rvars, qvars>>

\* the confirmation arrives: anything but yes or y, in any case, exits with 0;
\* otherwise deleteBackupsForTimestamp(selectedGroup.backups) starts and asks
\* whether its first dataset exists
ConfirmAnswered == /\ dpc = "confirm"
                   /\ \E answer \in ConfirmAnswers :
                         /\ confAnswer' = answer
                         /\ LET confirm == ToLowerCase(answer)
                            IN IF confirm # <<"y", "e", "s">> /\ confirm # <<"y">>
                               THEN dpc' = "exited" /\ dexit' = 0 /\ UNCHANGED <<dqueue, di>>
                               ELSE dpc' = "exists" /\ dexit' = dexit /\ dqueue' = groups[selected + 1].backups /\ di' = 1
                   /\ UNCHANGED <<dbackups, groups, selAnswer, selected, successCount, errorCount, dhist, vanished>>
                   /\ UNCHANGED <<wvars, bvars, cvars, rvars, qvars>>

\* a loop that gives up at the first deletion that fails
AfterDelete_StopsOnError(outcome) == /\ dhist' = Append(dhist, [backupDatasetId |-> dqueue[di].backupDatasetId, outcome |-> outcome])
                                     /\ successCount' = (IF outcome = "failed" THEN successCount ELSE successCount + 1)
                                     /\ errorCount' = (IF outcome = "failed" THEN errorCount + 1 ELSE errorCount)
                                     /\ di' = di + 1
                                     /\ IF di + 1 > Len(dqueue) \/ outcome = "failed"
                                        THEN dpc' = "exited" /\ dexit' = (IF errorCount' > 0 THEN 1 ELSE 0)
                                        ELSE dpc' = "exists" /\ dexit' = dexit

\* the end of one iteration of the loop of deleteBackupsForTimestamp: the
\* deletion is counted as a success or as an error and the next one starts,
\* or the counts decide the exit code
AfterDelete(outcome) == /\ dhist' = Append(dhist, [backupDatasetId |-> dqueue[di].backupDatasetId, outcome |-> outcome])
                        /\ successCount' = (IF outcome = "failed" THEN successCount ELSE successCount + 1)
                        /\ errorCount' = (IF outcome = "failed" THEN errorCount + 1 ELSE errorCount)
                        /\ di' = di + 1
                        /\ IF di + 1 > Len(dqueue)
                           THEN dpc' = "exited" /\ dexit' = (IF errorCount' > 0 THEN 1 ELSE 0)
                           ELSE dpc' = "exists" /\ dexit' = dexit

\* dataset.exists() of deleteBackupDataset returns: a missing dataset is
\* skipped, an existing one gets dataset.delete({ force: true })
DeleteExists == /\ dpc = "exists"
                /\ \E fail \in BOOLEAN :
                      IF fail
                      THEN AfterDelete("failed") /\ jobs' = jobs
                      ELSE IF dqueue[di].backupDatasetId \notin DOMAIN bq
                      THEN AfterDelete("missing") /\ jobs' = jobs
                      ELSE /\ jobs' = Append(jobs, DeleteDatasetJob(dqueue[di].backupDatasetId))
                           /\ dpc' = "deleting"
                           /\ UNCHANGED <<di, successCount, errorCount, dexit, dhist>>
                /\ UNCHANGED <<dbackups, groups, selAnswer, selected, confAnswer, dqueue, vanished>>
                /\ UNCHANGED <<bq, now, ticks>>
                /\ UNCHANGED <<bvars, cvars, rvars, qvars>>

\* dataset.delete({ force: true }) returns: on success the dataset is gone
\* with all its tables
DeleteDeleted == /\ dpc = "deleting"
                 /\ \E ok \in BOOLEAN :
                       IF ok /\ dqueue[di].backupDatasetId \in DOMAIN bq
                       THEN /\ bq' = [id \in DOMAIN bq \ {dqueue[di].backupDatasetId} |-> bq[id]]
                            /\ AfterDelete("deleted")
                       ELSE AfterDelete("failed") /\ bq' = bq
                 /\ UNCHANGED <<dbackups, groups, selAnswer, selected, confAnswer, dqueue, vanished>>
                 /\ UNCHANGED <<now, ticks, jobs>>
                 /\ UNCHANGED <<bvars, cvars, rvars, qvars>>

\* another user of the project removes a backup dataset while the command
\* waits (the case deleteBackupDataset logs as 'does not exist, skipping')
ExternalDelete == /\ dpc \in {"select", "confirm", "exists", "deleting"}
                  /\ vanished < MaxVanish
                  /\ \E id \in DOMAIN bq :
                        /\ StartsWith(id, BACKUP_DATASET_PREFIX)
                        /\ bq' = [x \in DOMAIN bq \ {id} |-> bq[x]]
                  /\ vanished' = vanished + 1
                  /\ UNCHANGED <<dpc, dbackups, groups, selAnswer, selected, confAnswer, dqueue, di, successCount, errorCount, dexit, dhist>>
                  /\ UNCHANGED <<now, ticks, jobs>>
                  /\ UNCHANGED <<bvars, cvars, rvars, qvars>>

InitDelete == /\ bq \in DeleteProjects
              /\ now = Now0
              /\ ticks = 0
              /\ jobs = <<>>
              /\ BackupIdle
              /\ CodecIdle
              /\ RestoreIdle
              /\ DeleteIdle
              /\ QueryIdle

NextDelete == \/ DeleteCommand
              \/ DeleteListed
              \/ SelectionAnswered
              \/ ConfirmAnswered
              \/ DeleteExists
              \/ DeleteDeleted
              \/ ExternalDelete

SpecDelete == InitDelete /\ [][NextDelete]_vars

(***************************************************************************)
(* Properties of backupDataset                                             *)
(***************************************************************************)

\* the loop indexes whose backup dataset the call has created
Made == {m.idx : m \in made}

JobsWhere(P(_)) == {i \in 1..Len(jobs) : P(jobs[i])}

\* the instant a call is bound to: the caller's, or the clock at entry
CallInstant == IF options.timestamp.valid THEN options.timestamp ELSE calledAt

\* C1: within one backupDataset call the instant is fixed at the start (the
\* caller's value, or the clock read once at entry), and every backup dataset
\* name, every create request, every snapshot request and every result of the
\* call carries that instant, for every dataset and table, wherever the clock
\* has moved to in the meantime
C1_OneInstantPerCall == bpc # "idle" => /\ backupTimestamp = CallInstant
                                        /\ \A i \in 1..Len(jobs) : /\ jobs[i].op = "snapshot" => jobs[i].at = CallInstant /\ jobs[i].dataset = generateBackupDatasetName(jobs[i].source, CallInstant)
                                                                   /\ jobs[i].op = "createDataset" => \E k \in 1..Len(datasets) : jobs[i].dataset = generateBackupDatasetName(datasets[k].datasetId, CallInstant)
                                        /\ \A i \in 1..Len(results) : /\ results[i].timestamp = CallInstant
                                                                      /\ results[i].backupDatasetId \in {<<>>, generateBackupDatasetName(results[i].sourceDatasetId, CallInstant)}

\* C1 witness: a call without a caller-supplied instant has finished; it sent
\* snapshot requests for two different datasets, some of them after the clock
\* had moved into another second than the one of the call's instant
C1_Witness == /\ bpc = "done"
              /\ ~options.timestamp.valid
              /\ \E m1, m2 \in made : /\ datasets[m1.idx].datasetId # datasets[m2.idx].datasetId
                                      /\ formatBackupTimestamp(m2.clock) # formatBackupTimestamp(calledAt)
                                      /\ \E i \in 1..Len(jobs) : jobs[i].op = "snapshot" /\ jobs[i].source = datasets[m2.idx].datasetId

\* the eligible tables listed at loop index i whose snapshot failed
FailedAt(i) == {s \in settled : s.idx = i /\ ~s.ok}

\* C2: for a dataset with n eligible tables whose backup dataset was created by
\* the call, if k snapshots failed then its result has tablesBackedUp = n - k,
\* exactly k errors and success = (k = 0); this holds for every dataset of the
\* call from its own outcomes alone, so a sibling's failures change nothing
C2_PartialFailureCounts == \A i \in 1..Len(results) : i \in Made => LET n == Len(listed[i]) k == Cardinality(FailedAt(i)) IN /\ Cardinality({s \in settled : s.idx = i}) = n
                                                                                                                      /\ results[i].tablesBackedUp = n - k
                                                                                                                      /\ Len(results[i].errors) = k
                                                                                                                      /\ results[i].success = (k = 0)

\* C2 witness: a finished call in which one dataset had 3 eligible tables and
\* exactly 1 failed snapshot, and a sibling dataset was backed up in full
C2_Witness == /\ bpc = "done"
              /\ \E i, j \in Made : /\ i # j
                                    /\ Len(listed[i]) = 3 /\ Cardinality(FailedAt(i)) = 1 /\ results[i].tablesBackedUp = 2 /\ ~results[i].success
                                    /\ Len(listed[j]) >= 1 /\ FailedAt(j) = {} /\ results[j].success

\* C3: once the backup dataset of a source has been created, exactly one
\* snapshot request has been sent for each of its eligible tables and for no
\* other, whatever the siblings' outcomes; every table settles at most once,
\* and exactly once by the time the call returns
C3_OneSnapshotPerTable == \A i \in Made : LET src == datasets[i].datasetId IN /\ \A t \in Range(TableOrder) : Cardinality(JobsWhere(LAMBDA j : j.op = "snapshot" /\ j.source = src /\ j.table = t)) = (IF t \in Range(listed[i]) THEN 1 ELSE 0)
                                                                              /\ \A t \in Range(listed[i]) : Cardinality({s \in settled : s.idx = i /\ s.table = t}) <= 1
                                                                              /\ (i <= Len(results) => \A t \in Range(listed[i]) : Cardinality({s \in settled : s.idx = i /\ s.table = t}) = 1)

\* C3 witness: a dataset's result is in, one of its snapshots failed and
\* another one, settled after that failure was possible, succeeded
C3_Witness == \E i \in Made : /\ i <= Len(results)
                              /\ \E s1, s2 \in settled : s1.idx = i /\ s2.idx = i /\ ~s1.ok /\ s2.ok
                              /\ Len(listed[i]) = 3

\* the requests sent after position n of the log that target dataset id
JobsAfter(n, id) == {i \in (n + 1)..Len(jobs) : jobs[i].dataset = id}

\* C4 as stated: if the backup dataset of a source already exists when the call
\* reaches that source, then nothing is created or snapshotted there, the
\* existing dataset is unchanged, the source's result is success = false with
\* tablesBackedUp = 0, and the call goes on to the remaining sources
C4_AsStated == \A c \in collided : /\ JobsAfter(c.jobsLen, c.name) = {}
                                   /\ c.name \in DOMAIN bq /\ bq[c.name] = c.seen
                                   /\ bpc # "thrown"
                                   /\ (bpc = "done" => Len(results) = Len(datasets))
                                   /\ (c.idx <= Len(results) => ~results[c.idx].success /\ results[c.idx].tablesBackedUp = 0)

\* C4 amended: the same, with success = false claimed only for a source that
\* has at least one eligible table
C4_CollisionFailsOnlyThatSource == \A c \in collided : /\ JobsAfter(c.jobsLen, c.name) = {}
                                                       /\ c.name \in DOMAIN bq /\ bq[c.name] = c.seen
                                                       /\ bpc # "thrown"
                                                       /\ (bpc = "done" => Len(results) = Len(datasets))
                                                       /\ (c.idx <= Len(results) => results[c.idx].tablesBackedUp = 0 /\ (Len(listed[c.idx]) >= 1 => ~results[c.idx].success))

\* C4 witness: the call has returned; it found the backup dataset of a source
\* with eligible tables to exist, failed that source, and then backed up a
\* later source in full
C4_Witness == /\ bpc = "done"
              /\ \E c \in collided : /\ Len(listed[c.idx]) >= 1
                                     /\ results[c.idx].errors = <<Err("dataset", "already exists")>>
                                     /\ \E j \in Made : j > c.idx /\ results[j].success /\ results[j].tablesBackedUp >= 1

\* the supplied instant lies outside [clock - 7 days, clock] at the call
OutsideWindow == DateLT(calledAt, options.timestamp) \/ DateLT(options.timestamp, DateAddMs(calledAt, 0 - SevenDaysMs))

\* C5: a caller-supplied instant later than the clock or more than 7 days
\* before it makes the call throw with no request sent and no result recorded;
\* an instant inside the window, ends included, is not rejected
C5_WindowValidation == (bpc # "idle" /\ options.timestamp.valid) => IF OutsideWindow THEN bpc = "thrown" /\ thrown = "Invalid timestamp for time travel" /\ jobs = <<>> /\ results = <<>> ELSE thrown # "Invalid timestamp for time travel"

\* C5 witness: a call was rejected for an instant 7 days and 1 ms old
C5_Witness == /\ bpc = "thrown"
              /\ thrown = "Invalid timestamp for time travel"
              /\ DateAddMs(options.timestamp, SevenDaysMs + 1) = calledAt

(***************************************************************************)
(* Properties of the naming convention                                     *)
(***************************************************************************)

\* the BackupInfo entries the last listing holds for the dataset called name
ListedAs(name) == {i \in DOMAIN listing : listing[i].backupDatasetId = name}

FourDigitYear(d) == getUTCFullYear(d) >= 1000 /\ getUTCFullYear(d) <= 9999

\* C6 as stated: every backup dataset named by generateBackupDatasetName(source,
\* instant) is listed by listBackups with that source id and that very instant
C6_AsStated == \A e \in encoded : e.name \in listedFrom => \E i \in ListedAs(e.name) : listing[i].sourceDatasetId = e.source /\ listing[i].timestamp = e.instant

\* C6 amended: for an instant whose UTC year has four digits, the name built by
\* generateBackupDatasetName(source, instant) is listed by listBackups exactly
\* once, with the same source id (ids containing '_' included) and with the
\* instant truncated to the whole second
C6_RoundTripToTheSecond == \A e \in encoded : (e.name \in listedFrom /\ FourDigitYear(e.instant)) => /\ Cardinality(ListedAs(e.name)) = 1
                                                                                                     /\ \A i \in ListedAs(e.name) : listing[i] = [backupDatasetId |-> e.name, sourceDatasetId |-> e.source, timestamp |-> [e.instant EXCEPT !.ms = 0]]

\* C6 witness: a backup of a source whose id contains '_', taken at an instant
\* with a fraction of a second, has been listed
C6_Witness == \E e \in encoded : /\ e.source = SrcStamped
                                 /\ e.instant.ms # 0
                                 /\ e.name \in listedFrom
                                 /\ ListedAs(e.name) # {}

AllDigits(str) == \A i \in 1..Len(str) : IsDigit(str[i])

\* the number written by a run of digits
RECURSIVE Numeral(_)
Numeral(str) == IF Len(str) = 0 THEN 0 ELSE Numeral(SubSeq(str, 1, Len(str) - 1)) * 10 + DigitVal(str[Len(str)])

\* the calendar date and time of day written by 8 digits and 6 digits, when
\* there is such a date and time
CalendarInstant(datePart, timePart) == LET year == Numeral(SubSeq(datePart, 1, 4)) month == Numeral(SubSeq(datePart, 5, 6)) day == Numeral(SubSeq(datePart, 7, 8)) hours == Numeral(SubSeq(timePart, 1, 2)) minutes == Numeral(SubSeq(timePart, 3, 4)) seconds == Numeral(SubSeq(timePart, 5, 6)) days == DaysFromCivil(year, month - 1, day) back == CivilFromDays(days) IN IF month \in 1..12 /\ day >= 1 /\ back = [year |-> year, month |-> month - 1, date |-> day] /\ hours <= 23 /\ minutes <= 59 /\ seconds <= 59 THEN MkDate(days, hours * 3600 + minutes * 60 + seconds, 0) ELSE InvalidDate

\* the instant a dataset name stands for under the convention prefix, 8-digit
\* date, 6-digit time, source id; InvalidDate when it stands for none
NamedInstant(name) == IF ~StartsWith(name, BACKUP_DATASET_PREFIX) THEN InvalidDate ELSE LET parts == Split(name) IN IF Len(parts) < 5 THEN InvalidDate ELSE IF Len(parts[3]) # 8 \/ Len(parts[4]) # 6 \/ ~AllDigits(parts[3]) \/ ~AllDigits(parts[4]) THEN InvalidDate ELSE CalendarInstant(parts[3], parts[4])

\* C7 as stated: listBackups yields no BackupInfo for a dataset whose name
\* lacks the prefix, or whose two segments after it are not 8 digits and 6
\* digits, or whose digits are no calendar date and time of day
C7_AsStated == \A i \in DOMAIN listing : NamedInstant(listing[i].backupDatasetId).valid

\* C8 as stated: the datasets resolved for the instant T are exactly the
\* existing datasets whose name decodes to T
C8_AsStated == resolveT.valid => {resolved[i].backupDatasetId : i \in DOMAIN resolved} = {name \in resolvedFrom : NamedInstant(name) = resolveT}

(***************************************************************************)
(* Properties of restoreBackups                                            *)
(***************************************************************************)

\* the statements submitted to clone a snapshot onto table t of dataset target
CloneJobsFor(target, t) == {i \in DOMAIN jobs : jobs[i].op \in {"CREATE TABLE CLONE", "CREATE OR REPLACE TABLE CLONE"} /\ jobs[i].dataset = target /\ jobs[i].table = t}

\* table t of dataset target holds the data of snapshot t of dataset backup
HoldsSnapshot(backup, target, t) == /\ target \in DOMAIN bq
                                    /\ t \in DOMAIN bq[target].tables
                                    /\ bq[target].tables[t] = Table(bq[backup].tables[t].data)

\* the snapshots of the idx-th resolved backup whose target table holds their data
RestoredOf(idx) == {t \in DOMAIN bq[backups[idx].backupDatasetId].tables : bq[backups[idx].backupDatasetId].tables[t].type = "SNAPSHOT" /\ HoldsSnapshot(backups[idx].backupDatasetId, backups[idx].sourceDatasetId, t)}

\* the result of the idx-th backup, once pushed, reports the conflict on table
\* t and counts exactly the tables cloned
ConflictReported(idx, t) == /\ ~rresults[idx].success
                            /\ RestoreErr(t, "already exists") \in Range(rresults[idx].errors)
                            /\ t \notin RestoredOf(idx)
                            /\ rresults[idx].tablesRestored = Cardinality(RestoredOf(idx))
                            /\ \A g \in rhist : (g.idx = idx /\ ~g.existed) => (g.table \in RestoredOf(idx) \/ RestoreErr(g.table, "remote error") \in Range(rresults[idx].errors))

\* the conflict recorded as h got no clone statement and left the target
\* table as found, and the other snapshots of the backup got theirs
ConflictHandled(h) == LET target == backups[h.idx].sourceDatasetId
                      IN /\ CloneJobsFor(target, h.table) = {}
                         /\ target \in DOMAIN bq /\ h.table \in DOMAIN bq[target].tables /\ bq[target].tables[h.table] = h.seen
                         /\ \A g \in rhist : (g.idx = h.idx /\ ~g.existed) => Cardinality(CloneJobsFor(target, g.table)) = 1
                         /\ (h.idx <= Len(rresults) => ConflictReported(h.idx, h.table))

\* C9: without overwrite, a snapshot whose target table is found to exist gets
\* no clone statement, the target table stays as it was found, the backup's
\* result is a failure naming that table and counts only the tables cloned;
\* every other snapshot of the backup found without a target gets its one
\* clone statement and is, unless that request fails, restored and counted
C9_ExistingTargetNotOverwritten == ~ropts.overwrite => \A h \in rhist : (h.existed => ConflictHandled(h))

\* C9 witness: a restore without overwrite has returned; in one backup the
\* target of a snapshot existed and was reported, and the other snapshot was
\* restored and counted
C9_Witness == /\ rpc = "done"
              /\ ~ropts.overwrite
              /\ \E h \in rhist : /\ h.existed
                                  /\ rresults[h.idx].errors = <<RestoreErr(h.table, "already exists")>>
                                  /\ rresults[h.idx].tablesRestored = 1
                                  /\ \E g \in rhist : g.idx = h.idx /\ ~g.existed /\ g.table \in RestoredOf(h.idx)

\* C10: with overwrite, every table that exists when restoreBackups is called
\* exists in every state of the restore
C10_ExistingTableNeverAbsent == (rpc # "idle" /\ ropts.overwrite) => \A d \in DOMAIN rbefore : \A t \in DOMAIN rbefore[d].tables : rbefore[d].tables[t].type = "TABLE" => d \in DOMAIN bq /\ t \in DOMAIN bq[d].tables

\* C10 witness: with overwrite, the statement replacing one table that existed
\* before the restore is running while another such table is already replaced
C10_Witness == /\ rpc = "fanout"
               /\ ropts.overwrite
               /\ LET target == rresult.targetDatasetId
                  IN /\ target \in DOMAIN rbefore
                     /\ \E t \in DOMAIN rtask : rtask[t] = "cloning" /\ t \in DOMAIN rbefore[target].tables /\ bq[target].tables[t] = rbefore[target].tables[t]
                     /\ \E u \in DOMAIN rtask : rtask[u] = "ok" /\ u \in DOMAIN rbefore[target].tables /\ bq[target].tables[u] # rbefore[target].tables[u]

ViewOps == {"delete", "CREATE MATERIALIZED VIEW"}

\* the step submits a delete or a create of a materialized view
ViewJobSubmitted == Len(jobs') = Len(jobs) + 1 /\ jobs'[Len(jobs')].op \in ViewOps

\* no restoreTable of the current backup is still running
NoCloneRunning == \A t \in DOMAIN rtask : rtask[t] \in {"ok", "exists", "failed"}

\* no request on a view is pending, or the delete of this very view has just
\* returned and its create follows
ViewTurn == \/ rpc = "viewExists"
            \/ /\ rpc = "viewDelete"
               /\ jobs[Len(jobs)].op = "delete"
               /\ jobs'[Len(jobs')] = CreateViewJob(jobs[Len(jobs)].dataset, jobs[Len(jobs)].table)

\* C11: a delete or create of a materialized view is submitted only when every
\* table clone of the backup has completed, and only when no request on
\* another view is pending: views are handled one at a time, each finished
\* before the next starts
C11_ViewsAfterClonesOneAtATime == [][ViewJobSubmitted => (NoCloneRunning /\ ViewTurn)]_vars

\* C11 witness: the tables are cloned, the first view is recreated and the
\* create of the second view is running
C11_Witness == /\ rpc = "viewCreate"
               /\ vi = 2
               /\ CloneJobsFor(rresult.targetDatasetId, "t2") # {}
               /\ \E h \in vhist : h.idx = ri /\ h.viewId = views[1].viewId /\ h.ok

\* the backups whose tables were restored concurrently
FannedOut == {e.idx : e \in rsettled}

\* the views of the target dataset still are those listed for the idx-th
\* backup, the last one pushed
ViewsOf(idx) == idx = Len(rresults) /\ ri = idx + 1 /\ rpc \notin {"viewExists", "viewDelete", "viewCreate"}

\* C12: the result of a backup whose tables were restored counts the views
\* recreated and no other, its success and its errors are those of the table
\* clones alone, and every view listed was attempted, recreated or not
C12_ViewFailureNotATableFailure == \A idx \in FannedOut : idx <= Len(rresults) => /\ rresults[idx].materializedViewsRecreated = Cardinality({h \in vhist : h.idx = idx /\ h.ok})
                                                                                  /\ rresults[idx].success = (\A e \in rsettled : e.idx = idx => e.outcome = "ok")
                                                                                  /\ Len(rresults[idx].errors) = Cardinality({e \in rsettled : e.idx = idx /\ e.outcome # "ok"})
                                                                                  /\ (ViewsOf(idx) => {h.viewId : h \in {g \in vhist : g.idx = idx}} = {views[i].viewId : i \in DOMAIN views})

\* C12 witness: of two views the first was not recreated and the second was;
\* the result counts one view and is a success
C12_Witness == \E idx \in FannedOut : /\ ViewsOf(idx)
                                      /\ Len(views) = 2
                                      /\ [idx |-> idx, viewId |-> views[1].viewId, ok |-> FALSE] \in vhist
                                      /\ [idx |-> idx, viewId |-> views[2].viewId, ok |-> TRUE] \in vhist
                                      /\ rresults[idx].materializedViewsRecreated = 1
                                      /\ rresults[idx].success
                                      /\ rresults[idx].errors = <<>>

(***************************************************************************)
(* Properties of the datasets a backup covers                              *)
(***************************************************************************)

\* the source datasets a call is given: those named, or else those the
\* project lists that are no backup datasets
RECURSIVE NotBackups(_)
NotBackups(ids) == IF Len(ids) = 0 THEN <<>> ELSE IF StartsWith(Head(ids), BACKUP_DATASET_PREFIX) THEN NotBackups(Tail(ids)) ELSE <<Head(ids)>> \o NotBackups(Tail(ids))

GivenSources == IF Len(options.datasets) > 0 THEN options.datasets ELSE NotBackups(SortedIds({id \in DOMAIN bq : ~StartsWith(id, BACKUP_DATASET_PREFIX)}))

\* C19 as stated: a call that returns holds one result per source dataset
\* given, the i-th result being that of the i-th source
C19_AsStated == bpc = "done" => /\ Len(results) = Len(GivenSources)
                                /\ \A i \in 1..Len(results) : results[i].sourceDatasetId = GivenSources[i]

\* one of the dataset ids named in the call is no dataset of the project
NamedMissing == \E i \in DOMAIN options.datasets : options.datasets[i] \notin DOMAIN bq

\* C20 as stated: a call that names a dataset that does not exist fails as a
\* whole, with no backup dataset created and no snapshot taken
C20_AsStated == (bpc # "idle" /\ NamedMissing) => (jobs = <<>> /\ bpc # "done")

(***************************************************************************)
(* Properties of groupBackupsByTimestamp                                   *)
(***************************************************************************)

\* the backups of the input taken at instant t, in input order
BackupsAt(t) == SelectSeq(dbackups, LAMBDA b : b.timestamp = t)

\* C14: the groups are one per distinct instant of the input, each holds
\* exactly the input backups of its instant and so is not empty, every input
\* backup is in exactly one group, and the groups run from the newest instant
\* to the oldest, strictly
C14_GroupsPartitionNewestFirst == /\ Len(groups) = Cardinality({dbackups[i].timestamp : i \in DOMAIN dbackups})
                                  /\ \A g \in DOMAIN groups : groups[g].backups = BackupsAt(groups[g].timestamp) /\ Len(groups[g].backups) >= 1
                                  /\ \A i \in DOMAIN dbackups : Cardinality({g \in DOMAIN groups : \E k \in DOMAIN groups[g].backups : groups[g].backups[k] = dbackups[i]}) = 1
                                  /\ \A g \in DOMAIN groups : g > 1 => DateLT(groups[g].timestamp, groups[g - 1].timestamp)

\* C14 witness: a backup of a at an older instant, given first, and backups of
\* b_1 and of a at one newer instant make two groups, the newer one first and
\* holding both
C14_Witness == /\ dbackups = <<BackupInfoOf(SrcA, NoBackupInstant), BackupInfoOf(SrcB, RestoreInstant), BackupInfoOf(SrcA, RestoreInstant)>>
               /\ Len(groups) = 2
               /\ groups[1].timestamp = RestoreInstant
               /\ groups[1].backups = <<BackupInfoOf(SrcB, RestoreInstant), BackupInfoOf(SrcA, RestoreInstant)>>
               /\ groups[2].timestamp = NoBackupInstant

(***************************************************************************)
(* Properties of the delete-backups command                                *)
(***************************************************************************)

OutcomesOf(kind) == {k \in DOMAIN dhist : dhist[k].outcome = kind}

\* C15: the datasets of the selected group are attempted one after the other
\* in their order; each attempt is counted once, a missing dataset as a
\* success with no delete request, a failure as an error; a failure does not
\* end the loop, so that when the command ends every dataset was attempted
\* and successCount + errorCount is their number
C15_EveryDeletionAttempted == Len(dqueue) > 0 => /\ Len(dhist) = di - 1
                                                 /\ \A k \in DOMAIN dhist : dhist[k].backupDatasetId = dqueue[k].backupDatasetId
                                                 /\ successCount = Cardinality(OutcomesOf("deleted") \cup OutcomesOf("missing"))
                                                 /\ errorCount = Cardinality(OutcomesOf("failed"))
                                                 /\ successCount + errorCount = Len(dhist)
                                                 /\ Len(jobs) <= Len(dhist) + 1 - Cardinality(OutcomesOf("missing"))
                                                 /\ (dpc = "exited" => Len(dhist) = Len(dqueue) /\ successCount + errorCount = Len(dqueue) /\ dexit = (IF errorCount > 0 THEN 1 ELSE 0))

\* C15 witness: the first deletion failed, the second dataset was gone and
\* counted as a success, and the command ended with exit code 1
C15_Witness == /\ dpc = "exited"
               /\ Len(dhist) = 2
               /\ dhist[1].outcome = "failed"
               /\ dhist[2].outcome = "missing"
               /\ successCount = 1
               /\ errorCount = 1
               /\ dexit = 1

\* the answer is the numeral of a group index
ValidSelection(answer) == Len(answer) >= 1 /\ AllDigits(answer) /\ Numeral(answer) >= 1 /\ Numeral(answer) <= Len(groups)

\* C16 as stated: a dataset deletion is requested only after the user typed a
\* valid group index and then answered yes
C16_AsStated == (\E i \in DOMAIN jobs : jobs[i].op = "deleteDataset") => (ValidSelection(selAnswer) /\ ToLowerCase(confAnswer) = <<"y", "e", "s">>)

(***************************************************************************)
(* Properties shared by backupDataset and restoreBackups                   *)
(***************************************************************************)

\* C13: in every BackupResult and every RestoreResult pushed so far, success
\* is true exactly when the errors list is empty
C13_SuccessIffNoErrors == /\ \A k \in DOMAIN results : results[k].success <=> (results[k].errors = <<>>)
                          /\ \A k \in DOMAIN rresults : rresults[k].success <=> (rresults[k].errors = <<>>)

\* C13 witness: a backup call returned a result whose snapshots partly
\* failed and a result that failed before any snapshot
C13_Witness == /\ bpc = "done"
               /\ \E k \in DOMAIN results : ~results[k].success /\ results[k].tablesBackedUp > 0 /\ Len(results[k].errors) > 0
               /\ \E k \in DOMAIN results : ~results[k].success /\ results[k].errors[1].kind = "dataset"

CloneOps == {"CREATE TABLE CLONE", "CREATE OR REPLACE TABLE CLONE"}

\* the requests sent by the step
Issued == {j \in DOMAIN jobs' : j \notin DOMAIN jobs}

\* C17: a snapshot request is sent only when the create request of its backup
\* dataset was sent before and the dataset exists when the requests leave; a
\* clone request is sent only into a target dataset that exists
C17_SetupBeforeFanOut == [][\A j \in Issued : /\ (jobs'[j].op = "snapshot" => (jobs'[j].dataset \in DOMAIN bq' /\ \E i \in DOMAIN jobs : jobs[i].op = "createDataset" /\ jobs[i].dataset = jobs'[j].dataset))
                                              /\ (jobs'[j].op \in CloneOps => jobs'[j].dataset \in DOMAIN bq)]_vars

\* C17 witness: a clone was sent into a target dataset that the call created
C17_Witness == \E j \in DOMAIN jobs : /\ jobs[j].op \in CloneOps
                                      /\ jobs[j].dataset \notin DOMAIN rbefore
                                      /\ jobs[j].dataset \in DOMAIN bq
                                      /\ \E i \in 1..(j - 1) : jobs[i].op = "createDataset" /\ jobs[i].dataset = jobs[j].dataset

SnapshotOutcomes(k) == {e \in settled : e.idx = k}

RestoreOutcomes(k) == {e \in rsettled : e.idx = k}

\* the tables of the outcomes that are not successes, in listing order
FailedInOrder(failedTables) == SeqFilterIn(TableOrder, failedTables)

ExpectedSnapshotErrors(k) == LET f == FailedInOrder({e.table : e \in {x \in SnapshotOutcomes(k) : ~x.ok}})
                             IN [i \in 1..Len(f) |-> Err("snapshot", f[i])]

ExpectedRestoreErrors(k) == LET f == FailedInOrder({e.table : e \in {x \in RestoreOutcomes(k) : x.outcome # "ok"}})
                            IN [i \in 1..Len(f) |-> RestoreErr(f[i], IF \E x \in RestoreOutcomes(k) : x.table = f[i] /\ x.outcome = "exists" THEN "already exists" ELSE "remote error")]

\* C18: the result of a dataset whose member operations ran is determined by
\* the set of their outcomes alone, whatever the order in which they
\* completed: the count is the number of successes, success says that none
\* failed, and errors lists the failures in the order of the tables
C18_AggregationOrderIndependent == /\ \A k \in DOMAIN results : SnapshotOutcomes(k) # {} => /\ results[k].tablesBackedUp = Cardinality({e \in SnapshotOutcomes(k) : e.ok})
                                                                                            /\ results[k].success = (\A e \in SnapshotOutcomes(k) : e.ok)
                                                                                            /\ results[k].errors = ExpectedSnapshotErrors(k)
                                   /\ \A k \in DOMAIN rresults : RestoreOutcomes(k) # {} => /\ rresults[k].tablesRestored = Cardinality({e \in RestoreOutcomes(k) : e.outcome = "ok"})
                                                                                            /\ rresults[k].success = (\A e \in RestoreOutcomes(k) : e.outcome = "ok")
                                                                                            /\ rresults[k].errors = ExpectedRestoreErrors(k)

\* C18 witness: t2 failed before t1 failed, and the returned errors list t1
\* before t2
C18_Witness == \E k \in DOMAIN rresults : /\ \E e1, e2 \in RestoreOutcomes(k) : e1.table = "t1" /\ e2.table = "t2" /\ e2.nth < e1.nth /\ e1.outcome # "ok" /\ e2.outcome # "ok"
                                          /\ Len(rresults[k].errors) = 2
                                          /\ rresults[k].errors[1].what = "t1"

(***************************************************************************)
(* Which datasets and tables a backup reads and writes                     *)
(***************************************************************************)

IsBackupId(id) == StartsWith(id, BACKUP_DATASET_PREFIX)

\* the call has listed its datasets without explicit ids
Enumerated == bpc \notin {"idle", "listDatasets", "thrown"} /\ Len(options.datasets) = 0

\* C21: without explicit ids the sources are exactly the datasets of the
\* project whose id does not start with zzz_backup_; no snapshot reads a
\* backup dataset, every created dataset is the backup of one of those
\* sources, and no result has a backup dataset as its source
C21_BackupsAreNeverSources == Enumerated => /\ {datasets[i].datasetId : i \in DOMAIN datasets} = {id \in DOMAIN bq : ~IsBackupId(id)}
                                            /\ \A j \in DOMAIN jobs : jobs[j].op = "snapshot" => ~IsBackupId(jobs[j].source)
                                            /\ \A j \in DOMAIN jobs : jobs[j].op = "createDataset" => \E i \in DOMAIN datasets : jobs[j].dataset = generateBackupDatasetName(datasets[i].datasetId, backupTimestamp)
                                            /\ \A k \in DOMAIN results : ~IsBackupId(results[k].sourceDatasetId)

\* C21 witness: a call without ids returned on a project that held an older
\* backup dataset, after backing up both sources
C21_Witness == /\ Enumerated
               /\ bpc = "done"
               /\ \E id \in DOMAIN bq : IsBackupId(id) /\ \A j \in DOMAIN jobs : jobs[j].dataset # id
               /\ Len(results) = 2
               /\ \A k \in DOMAIN results : results[k].success /\ results[k].tablesBackedUp > 0

MemberType(datasetId, t) == IF datasetId \in DOMAIN bq /\ t \in DOMAIN bq[datasetId].tables THEN bq[datasetId].tables[t].type ELSE "missing"

\* C22: every snapshot request names a member of type TABLE of its source;
\* the members a dataset's listing returned are all of type TABLE; and no
\* error of a result is attributed to a member of another type
C22_OnlyTablesAreSnapshotted == /\ \A j \in DOMAIN jobs : jobs[j].op = "snapshot" => MemberType(jobs[j].source, jobs[j].table) = "TABLE"
                                /\ \A k \in DOMAIN listed : \A i \in DOMAIN listed[k] : MemberType(datasets[k].datasetId, listed[k][i]) = "TABLE"
                                /\ \A k \in DOMAIN results : \A i \in DOMAIN results[k].errors : results[k].errors[i].kind = "snapshot" => MemberType(results[k].sourceDatasetId, results[k].errors[i].what) = "TABLE"

\* C22 witness: the call returned; the dataset that holds three tables and a
\* materialized view was backed up in full with three snapshot requests, and
\* the dataset that holds a view, a snapshot, a model and an untyped member
\* succeeded with nothing to back up
C22_Witness == /\ bpc = "done"
               /\ Cardinality({j \in DOMAIN jobs : jobs[j].op = "snapshot"}) = 3
               /\ \E k \in DOMAIN results : results[k].sourceDatasetId = SrcA /\ results[k].success /\ results[k].tablesBackedUp = 3
               /\ \E k \in DOMAIN results : results[k].sourceDatasetId = SrcB /\ results[k].success /\ results[k].tablesBackedUp = 0 /\ DOMAIN bq[SrcB].tables = DOMAIN OtherMembers

\* the k-th source holds no member of type TABLE
ZeroEligible(k) == \A t \in DOMAIN bq[datasets[k].datasetId].tables : bq[datasets[k].datasetId].tables[t].type # "TABLE"

\* C23: for a source without a member of type TABLE no request is sent (no
\* dataset create, no snapshot into a backup dataset of it); its result has
\* no backup dataset id and tablesBackedUp = 0, and it is a success without
\* errors unless the listing itself failed; the loop goes on, so that the
\* returned list has one result per listed dataset
C23_NoTablesIsVacuousSuccess == bpc \notin {"idle", "listDatasets", "thrown"} =>
                                   /\ \A k \in DOMAIN datasets : ZeroEligible(k) =>
                                         /\ \A j \in DOMAIN jobs : jobs[j].dataset # generateBackupDatasetName(datasets[k].datasetId, backupTimestamp)
                                         /\ k \in DOMAIN results => /\ results[k].sourceDatasetId = datasets[k].datasetId
                                                                    /\ results[k].tablesBackedUp = 0
                                                                    /\ results[k].backupDatasetId = <<>>
                                                                    /\ \/ results[k].success /\ results[k].errors = <<>>
                                                                       \/ ~results[k].success /\ results[k].errors = <<Err("dataset", "remote error")>>
                                   /\ bpc = "done" => Len(results) = Len(datasets)

\* C23 witness: the first dataset held members but no table and got a
\* success with nothing backed up, and the next dataset was then backed up
C23_Witness == /\ bpc = "done"
               /\ Len(results) = 2
               /\ ZeroEligible(1)
               /\ DOMAIN bq[datasets[1].datasetId].tables # {}
               /\ results[1].success /\ results[1].tablesBackedUp = 0 /\ results[1].errors = <<>>
               /\ results[2].success /\ results[2].tablesBackedUp = 3

(***************************************************************************)
(* Properties of the start of restoreBackups                               *)
(***************************************************************************)

\* no dataset of the project at the call is a backup taken at instant t
NoBackupAt(t) == \A name \in DOMAIN rbefore : NamedInstant(name) # t

\* C24 as stated: a call without instant, or with an instant at which no
\* backup dataset was taken, throws without results and leaves the project
\* as it was, with no request sent
C24_AsStated == (rpc # "idle" /\ (~ropts.backupTimestamp.valid \/ NoBackupAt(ropts.backupTimestamp))) => (rpc \in {"resolve", "thrown"} /\ rresults = <<>> /\ bq = rbefore /\ jobs = <<>>)

(***************************************************************************)
(* Properties of the target dataset of a restore                           *)
(***************************************************************************)

CreateJobs == {j \in DOMAIN jobs : jobs[j].op = "createDataset"}

\* the backups of the call whose target is the dataset id
BackupsInto(id) == {k \in DOMAIN backups : backups[k].sourceDatasetId = id}

\* what holds of the target datasets whatever the location rule is: a
\* dataset is created only as the missing target of a backup of the call, at
\* most once; a clone into a target that was missing follows its creation;
\* a target that existed is never created again and keeps its location
TargetCreatedOnlyIfMissing == /\ \A j \in CreateJobs : jobs[j].dataset \notin DOMAIN rbefore /\ BackupsInto(jobs[j].dataset) # {}
                              /\ \A i, j \in CreateJobs : jobs[i].dataset = jobs[j].dataset => i = j
                              /\ \A j \in DOMAIN jobs : (jobs[j].op \in CloneOps /\ jobs[j].dataset \notin DOMAIN rbefore) => \E i \in CreateJobs : i < j /\ jobs[i].dataset = jobs[j].dataset
                              /\ \A d \in DOMAIN rbefore : d \in DOMAIN bq /\ bq[d].location = rbefore[d].location

\* the created target datasets have the location loc(backup location)
CreatedWith(loc(_)) == \A j \in CreateJobs : \A k \in BackupsInto(jobs[j].dataset) : (jobs[j].location = loc(rbefore[backups[k].backupDatasetId].location)) /\ (jobs[j].dataset \in DOMAIN bq => bq[jobs[j].dataset].location = loc(rbefore[backups[k].backupDatasetId].location))

SameLocation(location) == location

\* the location of the backup dataset, US for a backup dataset without one
BackupLocationElseUS(location) == IF location = "" THEN "US" ELSE location

StrayDeleteProjects == {(SrcA :> EmptyDataset("US")) @@ (StrayMonth13 :> BackupDataset(3)) @@ (generateBackupDatasetName(SrcB, MkDate(DaysFromCivil(2025, 0, 15), 52222, 0)) :> BackupDataset(4))}

InitStrayDelete == /\ bq \in DeleteProjects \cup StrayDeleteProjects
                   /\ now = Now0
                   /\ ticks = 0
                   /\ jobs = <<>>
                   /\ BackupIdle
                   /\ CodecIdle
                   /\ RestoreIdle
                   /\ DeleteIdle
                   /\ QueryIdle

SpecStrayDelete == InitStrayDelete /\ [][NextDelete]_vars

(***************************************************************************)
(* Properties of calculateExpirationTimestamp                              *)
(***************************************************************************)

\* the calendar date n days after the calendar date c, counted month by
\* month through the lengths of the months
RECURSIVE DateAfter(_, _)
DateAfter(c, n) == LET leap == (c.year % 4 = 0 /\ c.year % 100 # 0) \/ c.year % 400 = 0
                       len == IF c.month = 1 THEN (IF leap THEN 29 ELSE 28) ELSE IF c.month \in {3, 5, 8, 10} THEN 30 ELSE 31
                   IN IF c.date + n <= len THEN [c EXCEPT !.date = @ + n]
                      ELSE IF c.month < 11 THEN DateAfter([c EXCEPT !.date = 1, !.month = @ + 1], n - (len - c.date + 1))
                      ELSE DateAfter([year |-> c.year + 1, month |-> 0, date |-> 1], n - (len - c.date + 1))

\* C26: with 0 days there is no expiration; with n > 0 days the expiration
\* is a valid instant on the calendar date n days after the instant's date,
\* at the same time of day to the millisecond, which is n times 24 hours
\* later; the instant passed in is unchanged
C26_ExpirationIsWholeDaysLater == bpc = "expiration" => /\ backupTimestamp = calledAt
                                                        /\ options.expirationDays = 0 => ~expirationTimestamp.valid
                                                        /\ options.expirationDays > 0 => /\ expirationTimestamp.valid
                                                                                         /\ CivilFromDays(expirationTimestamp.day) = DateAfter(CivilFromDays(calledAt.day), options.expirationDays)
                                                                                         /\ expirationTimestamp.sod = calledAt.sod
                                                                                         /\ expirationTimestamp.ms = calledAt.ms
                                                                                         /\ expirationTimestamp = MkDate(calledAt.day + options.expirationDays, calledAt.sod, calledAt.ms)

\* C26 witness: two days after 2024-02-28T23:59:59.999Z is
\* 2024-03-01T23:59:59.999Z, across the leap day
C26_Witness == /\ bpc = "expiration"
               /\ calledAt = MkDate(DaysFromCivil(2024, 1, 28), 86399, 999)
               /\ options.expirationDays = 2
               /\ CivilFromDays(expirationTimestamp.day) = [year |-> 2024, month |-> 2, date |-> 1]
               /\ expirationTimestamp.sod = 86399
               /\ expirationTimestamp.ms = 999

(***************************************************************************)
(* Frame of backupDataset                                                  *)
(***************************************************************************)

\* the source datasets of the call, as listDatasets resolved them
Sources == {datasets[i].datasetId : i \in DOMAIN datasets}

BackupOf(s) == generateBackupDatasetName(s, backupTimestamp)

\* C27: every request of backupDataset is a dataset create or a snapshot
\* create whose target is the backup name of a source of the call; no step
\* removes a dataset, and a step changes or adds only a dataset that bears the
\* backup name of a source and is not itself a source, so the members and the
\* contents of every source stay as they were
C27_SourcesAreReadOnly == [][/\ \A j \in Issued : (jobs'[j].op \in {"createDataset", "snapshot"} /\ \E s \in Sources : (jobs'[j].dataset = BackupOf(s) /\ (jobs'[j].op = "snapshot" => jobs'[j].source = s)))
                             /\ \A id \in DOMAIN bq : (id \in DOMAIN bq' /\ (bq'[id] # bq[id] => (id \notin Sources /\ \E s \in Sources : id = BackupOf(s))))
                             /\ \A id \in DOMAIN bq' : (id \notin DOMAIN bq => (id \notin Sources /\ \E s \in Sources : id = BackupOf(s)))]_vars

\* C27 witness: the call is over, one source has a backup with a snapshot in
\* it, a snapshot of a source failed, and every source is in the project
C27_Witness == /\ bpc = "done"
               /\ \E k \in DOMAIN results : results[k].success /\ results[k].tablesBackedUp > 0 /\ results[k].backupDatasetId \in DOMAIN bq /\ DOMAIN bq[results[k].backupDatasetId].tables # {}
               /\ \E e \in settled : ~e.ok
               /\ Sources # {}
               /\ Sources \subseteq DOMAIN bq

\* C30: while a call with dryRun set runs, from its first step to its last,
\* no step sends a request and no step changes a dataset, a table or the set
\* of datasets
C30_DryRunChangesNothing == [][(options.dryRun \/ options'.dryRun) => (jobs' = jobs /\ bq' = bq)]_vars

\* C30 witness: a dry run is over, it reported a source with tables as backed
\* up, no request was sent and the backup dataset it named does not exist
C30_Witness == /\ bpc = "done"
               /\ options.dryRun
               /\ jobs = <<>>
               /\ \E k \in DOMAIN results : results[k].success /\ results[k].tablesBackedUp > 0 /\ results[k].backupDatasetId \notin DOMAIN bq

(***************************************************************************)
(* Properties of rabbit_bq_query                                           *)
(***************************************************************************)

\* the function added --reservation_id=<recommended> to the flags
ReservationAdded == use_reservation /\ reservation_id # <<>> /\ ~has_reservation_flag

\* C28, as stated: when the first execution carried the added reservation
\* and failed there is exactly one more execution, with the original
\* arguments; when the first execution succeeded or no reservation was added
\* there is no second execution
C28_AsStated == (qpc = "done" /\ Len(executed) >= 1) => (/\ ((ReservationAdded /\ executed[1].status # 0) => (Len(executed) = 2 /\ executed[2].args = original_args))
                                                         /\ ((executed[1].status = 0 \/ ~ReservationAdded) => Len(executed) = 1))

\* the reservations the caller asked for: --reservation_id=VALUE and
\* --reservation_id VALUE
CallerReservations(args) == {args[i].value : i \in {k \in DOMAIN args : args[k] = FlagEq("--reservation_id", args[k].value)}} \cup {<<args[i + 1].name>> : i \in {k \in DOMAIN args : args[k] = Flag("--reservation_id") /\ k < Len(args)}}

\* C29, as stated: when the caller asked for a reservation and the optimizer
\* recommends another one, the command that is executed carries the
\* recommended reservation and not the caller's
C29_AsStated == (Len(executed) >= 1 /\ use_reservation /\ reservation_id # <<>> /\ CallerReservations(original_args) # {} /\ reservation_id \notin CallerReservations(original_args)) => (/\ \E i \in DOMAIN executed[1].args : executed[1].args[i] = FlagEq("--reservation_id", reservation_id)
                                                                                                                                                                                         /\ CallerReservations(executed[1].args) = {reservation_id})

\* C40, as stated: the status the function returns is the exit status of the
\* last bq query command it ran
C40_AsStated == (qpc = "done" /\ Len(executed) >= 1) => exit_code = executed[Len(executed)].status

(***************************************************************************)
(* Deletion while other users remove backups                               *)
(***************************************************************************)

\* C39, as stated: when the answer to dataset.delete() arrives for a backup
\* dataset that another user removed after dataset.exists() had found it,
\* the deletion is counted as a success and not as an error
C39_AsStated == [][(dpc = "deleting" /\ dpc' # "deleting" /\ dqueue[di].backupDatasetId \notin DOMAIN bq) => (errorCount' = errorCount /\ successCount' = successCount + 1)]_vars

\* C38, as stated: every dataset the command asks to delete bears the backup
\* prefix and a name that stands for the instant of the selected group; hence
\* none is a source dataset or the backup of another instant
C38_AsStated == \A j \in DOMAIN jobs : (jobs[j].op = "deleteDataset" => (StartsWith(jobs[j].dataset, BACKUP_DATASET_PREFIX) /\ NamedInstant(jobs[j].dataset) = groups[selected + 1].timestamp))

(***************************************************************************)
(* Names whose source id holds a timestamp                                 *)
(***************************************************************************)

\* the source id a dataset name stands for: what follows the prefix, the 15
\* characters of the instant and one separator
NamedSource(name) == SubSeq(name, Len(BACKUP_DATASET_PREFIX) + 17, Len(name))

\* 8 digits, a separator and 6 digits start at position i of str
StampAt(str, i) == i + 14 <= Len(str) /\ AllDigits(SubSeq(str, i, i + 7)) /\ str[i + 8] = "_" /\ AllDigits(SubSeq(str, i + 9, i + 14))

\* the name stands for an instant and its source id holds a timestamp-like run
HasStampedSource(name) == NamedInstant(name).valid /\ \E i \in 1..Len(NamedSource(name)) : StampAt(NamedSource(name), i)

\* C32, as stated: for a name whose source id holds a timestamp-like run, the
\* listing gives the instant of the first run after the prefix and the rest as
\* the source id, and the resolution for an instant T (taken to the second)
\* keeps the name exactly when that first run is T, with the rest as source id
C32_AsStated == /\ \A i \in DOMAIN listing : (HasStampedSource(listing[i].backupDatasetId) => (listing[i].timestamp = NamedInstant(listing[i].backupDatasetId) /\ listing[i].sourceDatasetId = NamedSource(listing[i].backupDatasetId)))
                /\ \A name \in listedFrom : (HasStampedSource(name) => \E i \in DOMAIN listing : listing[i].backupDatasetId = name)
                /\ resolveT.valid => \A name \in resolvedFrom : (HasStampedSource(name) => ((\E i \in DOMAIN resolved : resolved[i].backupDatasetId = name) <=> NamedInstant(name) = [resolveT EXCEPT !.ms = 0]))
                /\ \A i \in DOMAIN resolved : (HasStampedSource(resolved[i].backupDatasetId) => resolved[i].sourceDatasetId = NamedSource(resolved[i].backupDatasetId))

\* the backup datasets and their source ids in a sequence of BackupInfo
Members(infos) == {[backupDatasetId |-> infos[i].backupDatasetId, sourceDatasetId |-> infos[i].sourceDatasetId] : i \in DOMAIN infos}

\* C33, as stated: after the user selected a group from the listing, the
\* backup datasets resolved for the instant of the group, with their source
\* ids, are the members of that group
C33_AsStated == (resolveT.valid /\ Len(listing) > 0) => \A k \in DOMAIN groupBackupsByTimestamp(listing) : (groupBackupsByTimestamp(listing)[k].timestamp = resolveT => Members(resolved) = Members(groupBackupsByTimestamp(listing)[k].backups))

(***************************************************************************)
(* Completeness of a successful backup                                     *)
(***************************************************************************)

\* the members of type TABLE of a dataset of the project
TablesOf(id) == {t \in DOMAIN bq[id].tables : bq[id].tables[t].type = "TABLE"}

\* C37, as stated: a result with success = true of a call that is no dry run
\* counts every member of type TABLE of its source, and each of them has a
\* snapshot in the backup dataset of the source
C37_AsStated == \A k \in DOMAIN results : ((results[k].success /\ ~options.dryRun) => (/\ results[k].tablesBackedUp = Cardinality(TablesOf(results[k].sourceDatasetId))
                                                                                       /\ \A t \in TablesOf(results[k].sourceDatasetId) : (BackupOf(results[k].sourceDatasetId) \in DOMAIN bq /\ t \in DOMAIN bq[BackupOf(results[k].sourceDatasetId)].tables)))

(***************************************************************************)
(* Containment of failures in the loops of both services                   *)
(***************************************************************************)

InBackupLoop == bpc \in {"listTables", "exists", "creating", "fanout"}

InRestoreLoop == rpc \in {"listTables", "targetExists", "backupMeta", "creating", "fanout", "listViews", "viewExists", "viewDelete", "viewCreate"}

\* a step taken inside a loop does not end the call with an exception and
\* leaves the results pushed so far as they are
NoThrowInLoop == /\ (InBackupLoop => (bpc' # "thrown" /\ thrown' = thrown /\ Len(results') >= Len(results) /\ SubSeq(results', 1, Len(results)) = results))
                 /\ (InRestoreLoop => (rpc' # "thrown" /\ rthrown' = rthrown /\ Len(rresults') >= Len(rresults) /\ SubSeq(rresults', 1, Len(rresults)) = rresults))

\* when the call has returned, the results are those of its resources, one
\* each, in their order
EveryResourceHasResult == /\ (bpc = "done" => (Len(results) = Len(datasets) /\ \A k \in DOMAIN results : results[k].sourceDatasetId = datasets[k].datasetId))
                          /\ (rpc = "done" => (Len(rresults) = Len(backups) /\ \A k \in DOMAIN rresults : rresults[k].sourceBackupDatasetId = backups[k].backupDatasetId))

\* a snapshot or a clone that failed makes the result of its resource a
\* failure with an error
OperationFailuresRecorded == /\ \A e \in settled : ((~e.ok /\ e.idx \in DOMAIN results) => (~results[e.idx].success /\ Len(results[e.idx].errors) > 0))
                             /\ \A e \in rsettled : ((e.outcome # "ok" /\ e.idx \in DOMAIN rresults) => (~rresults[e.idx].success /\ Len(rresults[e.idx].errors) > 0))

\* a view recreation that failed makes the result of its resource a failure
\* with an error
ViewFailuresRecorded == \A e \in vhist : ((~e.ok /\ e.idx \in DOMAIN rresults) => (~rresults[e.idx].success /\ Len(rresults[e.idx].errors) > 0))

ViewsBefore(d) == {v \in DOMAIN rbefore[d].tables : rbefore[d].tables[v].type = "MATERIALIZED_VIEW"}

\* C36, as stated: when restoreBackups has returned, every materialized view
\* a target dataset held before is still there with the definition it had
C36_AsStated == rpc = "done" => \A k \in DOMAIN rresults : \A d \in {rresults[k].targetDatasetId} \cap DOMAIN rbefore : \A v \in ViewsBefore(d) : (d \in DOMAIN bq /\ v \in DOMAIN bq[d].tables /\ bq[d].tables[v] = rbefore[d].tables[v])

(***************************************************************************)
(* What restoreBackups leaves alone                                        *)
(***************************************************************************)

\* the targets of the resolved backup datasets
Targets == {backups[k].sourceDatasetId : k \in DOMAIN backups}

\* the names of the snapshots the resolved backups of target d held when the
\* call started
SnapshotNames(d) == UNION {{t \in DOMAIN rbefore[backups[k].backupDatasetId].tables : rbefore[backups[k].backupDatasetId].tables[t].type = "SNAPSHOT"} : k \in {i \in DOMAIN backups : backups[i].sourceDatasetId = d}}

\* member t of dataset d is as it was when the call started
SameMember(d, t) == /\ t \in DOMAIN rbefore[d].tables
                    /\ t \in DOMAIN bq[d].tables
                    /\ bq[d].tables[t] = rbefore[d].tables[t]

\* C35: from the call on, no dataset is removed; a dataset that is no target
\* of the resolved backups, every backup dataset among them, is as it was; a
\* target that existed keeps its location, and each member of it that neither
\* a snapshot names nor was a materialized view is as it was, none added; a
\* target the call created holds only members that snapshots name
C35_RestoreChangesOnlyNamedTables == rpc # "idle" =>
    /\ \A d \in DOMAIN rbefore : d \in DOMAIN bq
    /\ \A d \in DOMAIN bq \ Targets : (d \in DOMAIN rbefore /\ bq[d] = rbefore[d])
    /\ \A k \in DOMAIN backups : bq[backups[k].backupDatasetId] = rbefore[backups[k].backupDatasetId]
    /\ \A d \in Targets \cap DOMAIN rbefore : (bq[d].location = rbefore[d].location /\ \A t \in (DOMAIN rbefore[d].tables \cup DOMAIN bq[d].tables) \ (SnapshotNames(d) \cup ViewsBefore(d)) : SameMember(d, t))
    /\ \A d \in (Targets \cap DOMAIN bq) \ DOMAIN rbefore : DOMAIN bq[d].tables \subseteq SnapshotNames(d)

\* an overwriting restore has returned after replacing t1 of the target and
\* after a view recreation, with x1 and the dataset b_1 in the project
C35_Witness == /\ rpc = "done"
               /\ ropts.overwrite
               /\ SrcA \in DOMAIN rbefore
               /\ "x1" \in DOMAIN rbefore[SrcA].tables
               /\ bq[SrcA].tables["t1"] # rbefore[SrcA].tables["t1"]
               /\ vhist # {}
               /\ SrcB \in DOMAIN bq

(***************************************************************************)
(* The round trip of a backup and an overwriting restore                   *)
(***************************************************************************)

\* the members of type TABLE the dataset a held at the instant of the backup
TablesAtBackup == {t \in DOMAIN RoundTripProject[SrcA].tables : RoundTripProject[SrcA].tables[t].type = "TABLE"}

\* backupDataset reported success for a, and an overwriting restoreBackups
\* for the instant of that backup has returned with success for a
RoundTripSucceeded == /\ bpc = "done"
                      /\ rpc = "done"
                      /\ ropts.overwrite
                      /\ \E k \in DOMAIN results : (results[k].sourceDatasetId = SrcA /\ results[k].success)
                      /\ \E k \in DOMAIN rresults : (rresults[k].targetDatasetId = SrcA /\ rresults[k].success)

\* C34, as stated: after a successful backup of a, changes to its tables and
\* a successful overwriting restore of that backup, every table a held at the
\* instant of the backup is in a with the content it had then
C34_AsStated == RoundTripSucceeded => \A t \in TablesAtBackup : (SrcA \in DOMAIN bq /\ t \in DOMAIN bq[SrcA].tables /\ bq[SrcA].tables[t] = RoundTripProject[SrcA].tables[t])

====
